---- MODULE Spec2Model ----
(***************************************************************************)
(* The violation-detection and citation ("challan") pipeline of            *)
(* backend/server.py: the citation engine (create_challan_for_violation    *)
(* and the on-demand endpoints generate_challan, generate_styled_challan), *)
(* the frame loop of process_video_background, and the single-photo        *)
(* pipeline process_photo_background.                                      *)
(*                                                                         *)
(* The server is one asyncio event loop.  A coroutine runs from one await  *)
(* to the next without interruption; current_task names the coroutine      *)
(* that holds the loop in the middle of such a segment ("none" at an       *)
(* await).  Jobs handed to loop.run_in_executor run on pool threads, in    *)
(* parallel with the loop.                                                 *)
(***************************************************************************)
EXTENDS Integers, Sequences, FiniteSets, TLC

VARIABLES
    violations,     \* db.violations: sequence of records, the id is the index
    challans,       \* db.challans: set of records
    tasks,          \* invocations of create_challan_for_violation
    calls,          \* requests to generate_challan / generate_styled_challan
    current_task,   \* the coroutine holding the event loop, or "none"
    frame_marks,    \* pixels of each frame buffer: the boxes drawn on it so far
    run,            \* locals and job record of process_video_background
    photo,          \* locals and job record of process_photo_background
    calibration_zones,  \* db.calibration_zones: sequence of documents
    user_settings,  \* db.user_settings: sequence of documents
    user_sessions,  \* db.user_sessions: sequence of documents
    clock,          \* datetime.now(timezone.utc), in ticks
    log,            \* the requests answered so far, with their responses
    ocr,            \* locals of extract_plate_text
    transient,      \* locals of process_frame_transient
    jobs            \* a video's job record and the runs started for it

\* The collections and records the citation and detection pipelines never write.
stores == <<calibration_zones, user_settings, user_sessions, clock, log, ocr,
           transient, jobs>>

vars == <<violations, challans, tasks, calls, current_task, frame_marks, run, photo,
          stores>>

(***************************************************************************)
(* Bounds of the model.                                                    *)
(***************************************************************************)
NumViolations == 1      \* violations persisted before the citation engine runs
ShortFrames == 4        \* frames of the short input video
LongFrames == 16        \* frames of the long input video
MaxCreateCalls == 2     \* invocations of create_challan_for_violation per violation
MaxCalls == 1           \* requests to the on-demand endpoints
MaxVehicles == 2        \* vehicle-like detections in a photo
MaxNoHelmets == 2       \* explicit no-helmet detections in a photo
MaxWindow == 6          \* positions in a window given to the speed estimate
MaxRequests == 4        \* requests answered by the calibration or the session endpoints
ClockStep == 4          \* days that pass at once
MaxClock == 12          \* days the clock runs

None == "None"
NoNumber == <<"none", "none", 0>>
PlateTexts == {None, "PLATE"}
ChargeableTypes == {"no_helmet", "triple_riding", "overspeeding"}

\* The (plate_text, plate_detected) pairs the pipelines hand to a citation task:
\* a text is only ever read from a detected plate region.
PlateInputs == {<<None, FALSE>>, <<None, TRUE>>, <<"PLATE", TRUE>>}

NoImage == [kind |-> "none", buf |-> 0, region |-> 0]
BytesImage == [kind |-> "bytes", buf |-> 0, region |-> 0]

\* What cv2.imwrite reads through an image handle.  A numpy slice of a frame
\* (kind "view") shares the frame's memory: it shows whatever is drawn on the
\* frame, inside the region, at the time it is read.  The rectangle of a box is
\* drawn on the border of that box's own region.
PixelsOf(img) ==
    IF img.kind = "view" THEN frame_marks[img.buf] \cap {img.region} ELSE {}

\* A fine that does not depend on the violation type.
FlatFine(violation_type) == 500

\* Lines 2692-2702: fine_map.get(violation_type, 500.0).
get_fine_amount(violation_type) ==
    CASE violation_type = "no_helmet" -> 500
      [] violation_type \in {"cell_phone", "phone", "mobile"} -> 1000
      [] violation_type = "overspeeding" -> 1500
      [] violation_type = "wrong_way" -> 2000
      [] OTHER -> 500

Range(s) == {s[i] : i \in DOMAIN s}

ChallansOf(violation_id) == {c \in challans : c.violation_id = violation_id}

NewViolation(violation_type, mode, track_id, frame_idx) ==
    [violation_type |-> violation_type, mode |-> mode, track_id |-> track_id,
     frame_idx |-> frame_idx, challan_number |-> NoNumber, plate_number |-> None,
     plate_readable |-> FALSE, detected_image_path |-> FALSE, pdf_path |-> FALSE]

\* The Challan model (lines 554-560) with the optional keys the handlers add.
ChallanDoc(id, violation_id, challan_number, violation_type) ==
    [id |-> id, violation_id |-> violation_id, challan_number |-> challan_number,
     fine_amount |-> get_fine_amount(violation_type),
     violation_type |-> violation_type,
     plate_number |-> None, plate_readable |-> FALSE, preset_challan |-> FALSE,
     notes |-> None, detected_image_path |-> FALSE, pdf_path |-> FALSE]

NoChallan == ChallanDoc(<<"none", 0>>, 0, NoNumber, None)

(***************************************************************************)
(* create_challan_for_violation                                            *)
(***************************************************************************)
\* asyncio.create_task(create_challan_for_violation(...)) or a direct await of it:
\* the record of one invocation, not yet started.
NewTask(violation_id, violation_type, plate_text, plate_detected, detected_image) ==
    [violation_id |-> violation_id, violation_type |-> violation_type,
     plate_text |-> plate_text, plate_detected |-> plate_detected,
     detected_image |-> detected_image,
     dispatched_pixels |-> PixelsOf(detected_image),
     pc |-> "start", imwrite |-> "pending", saved_pixels |-> {},
     challan_dict |-> NoChallan, pdf |-> "pending"]

\* Lines 273-290: the challan document before the image is saved.  The challan
\* number is a fresh uuid prefix: the invocation's index stands for it.
ChallanDict(i) ==
    LET t == tasks[i] IN
    [ChallanDoc(<<"task", i>>, t.violation_id, <<"CHAL", "task", i>>, t.violation_type)
        EXCEPT !.plate_number = IF t.plate_text # None THEN t.plate_text ELSE None,
               !.plate_readable = t.plate_text # None,
               !.preset_challan = (t.plate_text = None /\ t.plate_detected),
               !.notes = IF t.plate_text = None /\ t.plate_detected
                         THEN "unreadable" ELSE None]

\* Lines 310-325: the OCR retry on the saved image, then db.challans.insert_one.
\* retry is what try_ocr_full_image_for_plate returns when it is called.
InsertedChallan(i, imwrite, retry) ==
    LET t == tasks[i]
        d == [ChallanDict(i) EXCEPT !.detected_image_path = (imwrite # "raised" /\ imwrite # "pending")]
        retried == t.plate_detected /\ t.plate_text = None /\ imwrite = "written"
    IN  IF retried /\ retry # None
        THEN [d EXCEPT !.plate_number = retry, !.plate_readable = TRUE,
                       !.preset_challan = FALSE, !.notes = "retry_ok"]
        ELSE d

\* The plate text the invocation holds after the retry (line 317).
PlateAfterRetry(i, imwrite, retry) ==
    LET t == tasks[i] IN
    IF t.plate_detected /\ t.plate_text = None /\ imwrite = "written" /\ retry # None
    THEN retry ELSE t.plate_text

\* An invocation that goes on to the document without having inserted the challan.
InsertSkipped(i, imwrite, saved_pixels, retry) ==
    /\ challans' = challans
    /\ tasks' = [tasks EXCEPT ![i].pc = "pdf", ![i].imwrite = imwrite,
                              ![i].saved_pixels = saved_pixels,
                              ![i].plate_text = PlateAfterRetry(i, imwrite, retry),
                              ![i].challan_dict = InsertedChallan(i, imwrite, retry)]

\* The segment ending at `await db.challans.insert_one(challan_dict)` (line 325).
DoInsert(i, imwrite, saved_pixels, retry) ==
    LET d == InsertedChallan(i, imwrite, retry) IN
    /\ challans' = challans \cup {d}
    /\ tasks' = [tasks EXCEPT ![i].pc = "pdf", ![i].imwrite = imwrite,
                              ![i].saved_pixels = saved_pixels,
                              ![i].plate_text = PlateAfterRetry(i, imwrite, retry),
                              ![i].challan_dict = d]

\* The invocation starts.  With an image it reaches the first run_in_executor
\* (line 301 or 304) and waits for the pool thread; without one it runs on to
\* the insert.
TaskStart(i) ==
    /\ current_task = "none"
    /\ tasks[i].pc = "start"
    /\ IF tasks[i].detected_image.kind # "none"
       THEN /\ tasks' = [tasks EXCEPT ![i].pc = "saving"]
            /\ UNCHANGED challans
       ELSE DoInsert(i, "pending", {}, None)
    /\ UNCHANGED <<violations, calls, current_task, frame_marks, run, photo, stores>>

\* The pool thread runs cv2.imwrite (or the bytes write).  It writes what the
\* handle shows at that moment, or raises (caught at line 307), or returns
\* without having written a file.
ExecImwrite(i) ==
    /\ tasks[i].pc = "saving"
    /\ \E outcome \in {"written", "raised", "not_written"} :
         tasks' = [tasks EXCEPT ![i].pc = "saved", ![i].imwrite = outcome,
                                ![i].saved_pixels =
                                    IF outcome = "written"
                                    THEN PixelsOf(tasks[i].detected_image) ELSE {}]
    /\ UNCHANGED <<violations, challans, calls, current_task, frame_marks, run, photo, stores>>

\* The invocation resumes after the image write: lines 305-325.
TaskInsert(i) ==
    /\ current_task = "none"
    /\ tasks[i].pc = "saved"
    /\ \E retry \in PlateTexts :
         DoInsert(i, tasks[i].imwrite, tasks[i].saved_pixels, retry)
    /\ UNCHANGED <<violations, calls, current_task, frame_marks, run, photo, stores>>

\* A document failure that propagates out of the invocation.
PdfFailureRaised(t, outcome) == [t EXCEPT !.pc = "raised", !.pdf = outcome]

\* What a failure of the document build or write does to the invocation
\* (lines 337-338: logged, the invocation goes on to update the violation).
AfterPdfFailure(t, outcome) == [t EXCEPT !.pc = "update_violation", !.pdf = outcome]

\* Lines 328-334: build the PDF and write it, both on the pool.  Either may raise.
TaskPdf(i) ==
    /\ current_task = "none"
    /\ tasks[i].pc = "pdf"
    /\ \E outcome \in {"ok", "build_raised", "write_raised"} :
         tasks' = [tasks EXCEPT ![i] =
                      IF outcome = "ok"
                      THEN [@ EXCEPT !.pc = "pdf_update", !.pdf = "ok"]
                      ELSE AfterPdfFailure(@, outcome)]
    /\ UNCHANGED <<violations, challans, calls, current_task, frame_marks, run, photo, stores>>

\* Line 336: db.challans.update_one({'id': ...}, {'$set': {'pdf_path': ...}}).
TaskPdfUpdate(i) ==
    /\ current_task = "none"
    /\ tasks[i].pc = "pdf_update"
    /\ challans' = {IF c.id = tasks[i].challan_dict.id
                    THEN [c EXCEPT !.pdf_path = TRUE] ELSE c : c \in challans}
    /\ tasks' = [tasks EXCEPT ![i].pc = "update_violation"]
    /\ UNCHANGED <<violations, calls, current_task, frame_marks, run, photo, stores>>

\* Lines 341-352: the $set applied to the violation document.
ViolationUpdate(v, t) ==
    [v EXCEPT !.challan_number = t.challan_dict.challan_number,
              !.plate_number = IF t.plate_text # None THEN t.plate_text
                               ELSE IF t.plate_detected THEN None ELSE @,
              !.plate_readable = IF t.plate_text # None THEN TRUE
                                 ELSE IF t.plate_detected THEN FALSE ELSE @,
              !.detected_image_path = IF t.challan_dict.detected_image_path THEN TRUE ELSE @,
              \* 'pdf_path' in locals(): assigned once the build has returned
              !.pdf_path = IF t.pdf \in {"ok", "write_raised"} THEN TRUE ELSE @]

\* Lines 340-354: update the violation, return the challan document.
TaskUpdateViolation(i) ==
    /\ current_task = "none"
    /\ tasks[i].pc = "update_violation"
    /\ violations' = [k \in DOMAIN violations |->
                        IF k = tasks[i].violation_id
                        THEN ViolationUpdate(violations[k], tasks[i])
                        ELSE violations[k]]
    /\ tasks' = [tasks EXCEPT ![i].pc = "done"]
    /\ UNCHANGED <<challans, calls, current_task, frame_marks, run, photo, stores>>

TaskStep ==
    \E i \in DOMAIN tasks :
        \/ TaskStart(i)
        \/ ExecImwrite(i)
        \/ TaskInsert(i)
        \/ TaskPdf(i)
        \/ TaskPdfUpdate(i)
        \/ TaskUpdateViolation(i)

(***************************************************************************)
(* generate_challan and generate_styled_challan                            *)
(***************************************************************************)
\* A request arrives.  Any violation id may be asked for.
NewCall(kind, violation_id) ==
    [kind |-> kind, violation_id |-> violation_id, pc |-> "find_violation",
     violation_type |-> None]

\* Lines 2716-2718 and 2544-2546: db.violations.find_one, 404 when there is none.
EndpointFindViolation(c) ==
    /\ current_task = "none"
    /\ calls[c].pc = "find_violation"
    /\ calls' = [calls EXCEPT ![c] =
                    IF calls[c].violation_id \in DOMAIN violations
                    THEN [calls[c] EXCEPT
                            !.pc = "find_challan",
                            !.violation_type = violations[calls[c].violation_id].violation_type]
                    ELSE [calls[c] EXCEPT !.pc = "not_found"]]
    /\ UNCHANGED <<violations, challans, tasks, current_task, frame_marks, run, photo, stores>>

\* Whether the lookup of lines 2764 and 2548 finds a challan of the violation.
ExistingChallan(violation_id) == ChallansOf(violation_id) # {}

\* Lines 2764 and 2548: db.challans.find_one({"violation_id": ...}).
EndpointFindChallan(c) ==
    /\ current_task = "none"
    /\ calls[c].pc = "find_challan"
    /\ calls' = [calls EXCEPT ![c].pc =
                    IF ExistingChallan(calls[c].violation_id) THEN "done" ELSE "insert"]
    /\ UNCHANGED <<violations, challans, tasks, current_task, frame_marks, run, photo, stores>>

\* Lines 2765-2777 and 2549-2561: no challan was found, insert one.
\* generate_challan numbers it CH-<violation id>, generate_styled_challan
\* CHAL-<fresh uuid>.
EndpointInsert(c) ==
    /\ current_task = "none"
    /\ calls[c].pc = "insert"
    /\ challans' = challans \cup
          {ChallanDoc(<<calls[c].kind, c>>, calls[c].violation_id,
                      IF calls[c].kind = "generate"
                      THEN <<"CH", "violation", calls[c].violation_id>>
                      ELSE <<"CHAL", "styled", c>>,
                      calls[c].violation_type)}
    /\ calls' = [calls EXCEPT ![c].pc = "done"]
    /\ UNCHANGED <<violations, tasks, current_task, frame_marks, run, photo, stores>>

EndpointStep ==
    \E c \in DOMAIN calls :
        \/ EndpointFindViolation(c)
        \/ EndpointFindChallan(c)
        \/ EndpointInsert(c)

(***************************************************************************)
(* process_video_background                                                *)
(***************************************************************************)
FRAME_SKIP == 3             \* line 773
MIN_POSITIONS == 5          \* line 857
POSITIONS_MAXLEN == 30      \* line 748
DEFAULT_PIXELS_PER_METER == 50   \* line 752
DEFAULT_LIMIT == 20         \* line 934
NO_HELMET_DIST == 200       \* line 907

Tracks == {1, 2}
\* CLASS_NAMES values the tracker reports for the tracked boxes.
ClassNames == {"motorcycle", "car"}
\* Frame rate the container reports for a video that opens.
FpsValues == {25}

\* The input videos.  A short one, in which two tracked objects come and go
\* and explicit no-helmet detections may appear on any sampled frame; a long
\* one, in which one object (track 1) stays in view, standing or moving at 20
\* pixels per frame, and no-helmet detections appear from frame 12 on.
\* triple_dist is the center distance (line 922) of the frame's triple-class
\* detection from each tracked box: 299 pixels in the short video, 300 in the
\* long ones.
Videos ==
    {[nframes |-> ShortFrames, steady |-> FALSE, motion |-> 0, nh_from |-> 0,
      triple_dist |-> 299]}
    \cup {[nframes |-> LongFrames, steady |-> TRUE, motion |-> m, nh_from |-> 12,
           triple_dist |-> 300] : m \in {0, 20}}
NoVideo == [nframes |-> 0, steady |-> FALSE, motion |-> 0, nh_from |-> 0,
            triple_dist |-> 0]

\* An explicit no-helmet detection as the frame loop measures it against a
\* tracked box: center distance (line 882) and intersection / union areas
\* (lines 897-900).
NoHelmetDetections ==
    {[dist |-> d, interArea |-> a, denom |-> 100] : d \in {199, 200}, a \in {1, 2}}

\* frame_detections['no_helmets'] of a frame: empty, or one detection.
NoHelmetLists == {<<>>} \cup {<<nh>> : nh \in NoHelmetDetections}

\* Line 875 and 938: 'bike', 'motor' or 'scooter' in the lower-cased class name.
is_bike(class_name) == class_name \in {"bike", "motorcycle", "motorbike", "scooter"}

\* Lines 901-907: iou_val > 0.01 or dist < 200.
NoHelmetMatches(nh) ==
    \/ (nh.denom > 0 /\ nh.interArea * 100 > nh.denom)
    \/ nh.dist < NO_HELMET_DIST

Users == {"u1", "u2"}
\* The user whose videos and photos the pipelines process.
RunUser == "u1"

\* A CalibrationZone document (lines 543-552).  The two pixel points lie on a
\* horizontal line.
CalibrationDoc(user_id, reference_distance, pixel_points, speed_limit, created_at) ==
    [user_id |-> user_id, reference_distance |-> reference_distance,
     pixel_points |-> pixel_points, speed_limit |-> speed_limit,
     created_at |-> created_at]

\* What find_one returns when no document matches.
NoCalibration == CalibrationDoc(None, 0, <<<<0, 0>>, <<0, 0>>>>, 0, -1)

\* Lines 751 and 1470: find_one({"user_id": ...}, sort=[("created_at", -1)]).
LatestCalibration(user_id) ==
    LET mine == {k \in DOMAIN calibration_zones : calibration_zones[k].user_id = user_id}
    IN  IF mine = {} THEN NoCalibration
        ELSE calibration_zones[CHOOSE k \in mine : \A j \in mine :
                 \/ calibration_zones[j].created_at < calibration_zones[k].created_at
                 \/ (calibration_zones[j].created_at = calibration_zones[k].created_at /\ k <= j)]

\* Lines 756-758: the length of the reference line.
PixelDistance(pixel_points) ==
    IF pixel_points[2][1] >= pixel_points[1][1]
    THEN pixel_points[2][1] - pixel_points[1][1]
    ELSE pixel_points[1][1] - pixel_points[2][1]

\* A scale that takes any stored reference_distance.
PixelsPerMeterUnchecked(calibration) ==
    IF calibration.user_id # None
    THEN <<PixelDistance(calibration.pixel_points), calibration.reference_distance>>
    ELSE <<DEFAULT_PIXELS_PER_METER, 1>>

\* Lines 752-769: pixels_per_meter as a fraction <<numerator, denominator>>.
\* The default 50 stays unless the calibration has a truthy reference_distance
\* (line 755) that is positive (line 762).
PixelsPerMeter(calibration) ==
    IF calibration.user_id # None /\ calibration.reference_distance # 0
                                  /\ calibration.reference_distance > 0
    THEN <<PixelDistance(calibration.pixel_points), calibration.reference_distance>>
    ELSE <<DEFAULT_PIXELS_PER_METER, 1>>

\* A user_settings document.  Absent stands for a key the document lacks.
Absent == -1
SettingsDoc(user_id, speed_limit, bike_speed_limit, car_speed_limit) ==
    [user_id |-> user_id, speed_limit |-> speed_limit,
     bike_speed_limit |-> bike_speed_limit, car_speed_limit |-> car_speed_limit]

NoSettings == SettingsDoc(None, Absent, Absent, Absent)

\* Line 931: db.user_settings.find_one({"user_id": user_id}).
SettingsOf(user_id) ==
    LET mine == {k \in DOMAIN user_settings : user_settings[k].user_id = user_id}
    IN  IF mine = {} THEN NoSettings
        ELSE user_settings[CHOOSE k \in mine : \A j \in mine : k <= j]

\* dict.get(key, default).
GetOr(value, default) == IF value = Absent THEN default ELSE value

\* Line 940: 'car', 'auto' or 'vehicle' in the lower-cased class name.
is_car(class_name) == class_name \in {"car", "auto", "vehicle"}

\* Line 852: deque(maxlen=30).append.
AppendPosition(positions, pos) ==
    LET q == Append(positions, pos) IN
    IF Len(q) > POSITIONS_MAXLEN THEN Tail(q) ELSE q

\* The speed None of line 856.
NoSpeed == [num |-> 0, den |-> 0]

\* A speed estimate that leaves the frame rate out: meters per frame times 3.6.
SpeedPerFrame(positions, fps, pixels_per_meter) ==
    IF Len(positions) >= MIN_POSITIONS
    THEN LET first_pos == positions[1]
             last_pos == positions[Len(positions)]
             distance_pixels == IF last_pos[1] >= first_pos[1]
                                THEN last_pos[1] - first_pos[1]
                                ELSE first_pos[1] - last_pos[1]
             dframes == last_pos[3] - first_pos[3]
         IN  IF dframes > 0
             THEN [num |-> distance_pixels * pixels_per_meter[2] * 36,
                   den |-> pixels_per_meter[1] * dframes * 10]
             ELSE NoSpeed
    ELSE NoSpeed

\* A speed estimate that asks for two positions only.
SpeedOfAnyWindow(positions, fps, pixels_per_meter) ==
    IF Len(positions) >= 2
    THEN LET first_pos == positions[1]
             last_pos == positions[Len(positions)]
             distance_pixels == IF last_pos[1] >= first_pos[1]
                                THEN last_pos[1] - first_pos[1]
                                ELSE first_pos[1] - last_pos[1]
             dframes == last_pos[3] - first_pos[3]
         IN  IF dframes > 0
             THEN [num |-> distance_pixels * pixels_per_meter[2] * fps * 36,
                   den |-> pixels_per_meter[1] * dframes * 10]
             ELSE NoSpeed
    ELSE NoSpeed

\* Lines 856-868.  The speed is None with fewer than 5 positions or no elapsed
\* time, else (distance_pixels / pixels_per_meter) / (frames / fps) * 3.6 km/h,
\* kept as the fraction num / den.  The tracked objects move along a
\* horizontal line, so the Euclidean distance of lines 862-863 is the
\* difference of the x coordinates.
SpeedOf(positions, fps, pixels_per_meter) ==
    IF Len(positions) >= MIN_POSITIONS
    THEN LET first_pos == positions[1]
             last_pos == positions[Len(positions)]
             distance_pixels == IF last_pos[1] >= first_pos[1]
                                THEN last_pos[1] - first_pos[1]
                                ELSE first_pos[1] - last_pos[1]
             dframes == last_pos[3] - first_pos[3]
         IN  IF dframes > 0
             THEN [num |-> distance_pixels * pixels_per_meter[2] * fps * 36,
                   den |-> pixels_per_meter[1] * dframes * 10]
             ELSE NoSpeed
    ELSE NoSpeed

\* Line 946: `speed and speed > limit`.  A fraction with a zero denominator
\* and a positive numerator is the float inf that numpy's division by 0.0
\* gives: it is truthy and greater than every limit.
Exceeds(speed, limit) ==
    \/ speed.den > 0 /\ speed.num > 0 /\ speed.num > limit * speed.den
    \/ speed.den = 0 /\ speed.num > 0

\* Lines 933-943: the limit the overspeeding rule compares with.
EffectiveLimit(class_name, calibration, settings) ==
    LET calib_speed_limit == IF calibration.user_id # None
                             THEN calibration.speed_limit ELSE 0
        base_limit == IF calib_speed_limit # 0 THEN calib_speed_limit
                      ELSE IF settings.user_id # None
                           THEN GetOr(settings.speed_limit, DEFAULT_LIMIT)
                           ELSE DEFAULT_LIMIT
        bike_limit == IF settings.user_id # None
                      THEN GetOr(settings.bike_speed_limit, base_limit) ELSE base_limit
        car_limit == IF settings.user_id # None
                     THEN GetOr(settings.car_speed_limit, base_limit) ELSE base_limit
    IN  IF is_bike(class_name) THEN bike_limit
        ELSE IF is_car(class_name) THEN car_limit
        ELSE base_limit

\* A gate that does not read the recorded set.
NoHelmetGateOpen(recorded) == TRUE

\* Line 877: the no_helmet gate reads the recorded set of the track.
NoHelmetUnrecorded(recorded) == "no_helmet" \notin recorded

\* Line 946: the overspeeding gate.
OverspeedUnrecorded(recorded) == "overspeeding" \notin recorded

\* A mark that is left to a later step: the set stays as it was.
MarkDeferred(recorded, violation_type) == recorded

\* Lines 910 and 948: tracker_data[track_id]['violations'].add(...).
MarkRecorded(recorded, violation_type) == recorded \cup {violation_type}

NewRun ==
    [pc |-> "idle", status |-> "uploaded", opened |-> FALSE, fps |-> 0,
     frame_idx |-> 0, frames_to_write |-> <<>>, out |-> <<>>,
     tracker_data |-> [t \in Tracks |-> [positions |-> <<>>, class |-> None,
                                         violations |-> {}]],
     calibration |-> NoCalibration,
     pixels_per_meter |-> <<DEFAULT_PIXELS_PER_METER, 1>>, limit |-> 0,
     video |-> NoVideo, boxes |-> <<>>, speed |-> NoSpeed, violations_to_save |-> <<>>,
     violation_id |-> 0, plate_text |-> None, plate_detected |-> FALSE,
     violations_count |-> 0, track_raised |-> FALSE, decode_failed |-> FALSE,
     matched_frames |-> [t \in Tracks |-> 0],
     first_match |-> [t \in Tracks |-> -1]]

RunHolds == current_task \in {"none", "video"}

\* process_video (lines 707-721): the request creates the background task.
ProcessVideo ==
    /\ current_task = "none"
    /\ run.pc = "idle"
    /\ run' = [run EXCEPT !.pc = "start"]
    /\ UNCHANGED <<violations, challans, tasks, calls, current_task, frame_marks, photo, stores>>

\* Lines 727-730: the job record moves to processing.
RunSetProcessing ==
    /\ current_task = "none"
    /\ run.pc = "start"
    /\ run' = [run EXCEPT !.pc = "open", !.status = "processing"]
    /\ UNCHANGED <<violations, challans, tasks, calls, current_task, frame_marks, photo, stores>>

\* Lines 732-769: cv2.VideoCapture does not raise on a source it cannot open; it
\* returns a capture whose isOpened() is false and whose properties read 0.  The
\* user's latest calibration is read and pixels_per_meter derived from it.
RunOpen ==
    /\ current_task = "none"
    /\ run.pc = "open"
    /\ \E opened \in BOOLEAN, fps \in FpsValues, video \in Videos :
         /\ run' = [run EXCEPT !.pc = "read", !.opened = opened,
                               !.fps = IF opened THEN fps ELSE 0,
                               !.video = IF opened THEN video ELSE NoVideo,
                               !.calibration = LatestCalibration(RunUser),
                               !.pixels_per_meter =
                                   PixelsPerMeter(LatestCalibration(RunUser))]
    /\ UNCHANGED <<violations, challans, tasks, calls, current_task, frame_marks, photo, stores>>

\* One tracked box model.track reports: its track id, class and center, and
\* whether some no-helmet detection of the frame matches it (the loop of lines
\* 880-911 stops at the first match), and the distance of the frame's
\* triple-class detection from it.  no_helmets are the frame's no-helmet
\* detections as measured against this box.
BoxOf(track_id, class_name, no_helmets, frame_idx, video) ==
    [track_id |-> track_id, class_name |-> class_name,
     nh_match |-> \E k \in DOMAIN no_helmets : NoHelmetMatches(no_helmets[k]),
     triple_dist |-> video.triple_dist,
     center |-> <<video.motion * frame_idx, 0>>]

\* The boxes of a frame, in the tracker's order.
BoxesOf(present, class_name, no_helmets, frame_idx, video) ==
    LET b(t) == IF present[t]
                THEN <<BoxOf(t, class_name[t], no_helmets[t], frame_idx, video)>>
                ELSE <<>>
    IN  b(1) \o b(2)

\* What the failure of model.track on a frame does to the run (line 789 is not
\* inside a try of its own: the handler of lines 1080-1085 takes it).
AfterTrackRaised(r) ==
    [r EXCEPT !.pc = "done", !.status = "failed", !.track_raised = TRUE]

\* What the run does when the capture is not open (line 776).
AfterNotOpened(r) == [r EXCEPT !.pc = "finish"]

\* Lines 776-789: one pass of the while loop up to the tracker's answer.
RunRead ==
    /\ RunHolds
    /\ run.pc = "read"
    /\ IF ~run.opened
       THEN /\ run' = AfterNotOpened(run)
            /\ current_task' = "video"
            /\ UNCHANGED frame_marks
       ELSE \/ \* cap.read() returns ret = False: the end, or a frame that does not decode
               /\ run' = [run EXCEPT !.pc = "finish",
                                     !.decode_failed = run.frame_idx < run.video.nframes]
               /\ current_task' = "video"
               /\ UNCHANGED frame_marks
            \/ \* a frame the sampling skips (lines 782-786)
               /\ run.frame_idx < run.video.nframes
               /\ run.frame_idx % FRAME_SKIP # 0
               /\ run' = [run EXCEPT !.frames_to_write = Append(@, run.frame_idx),
                                     !.frame_idx = @ + 1]
               /\ current_task' = "video"
               /\ UNCHANGED frame_marks
            \/ \* a sampled frame on which model.track raises
               /\ run.frame_idx < run.video.nframes
               /\ run.frame_idx % FRAME_SKIP = 0
               /\ run' = AfterTrackRaised(run)
               /\ current_task' = "none"
               /\ UNCHANGED frame_marks
            \/ \* a sampled frame with the tracker's boxes
               /\ run.frame_idx < run.video.nframes
               /\ run.frame_idx % FRAME_SKIP = 0
               /\ \E present \in [Tracks -> BOOLEAN], class_name \in [Tracks -> ClassNames],
                     no_helmets \in [Tracks -> NoHelmetLists] :
                    LET boxes == BoxesOf(present, class_name, no_helmets,
                                         run.frame_idx, run.video) IN
                    /\ (run.video.steady => present[1] /\ ~present[2])
                    /\ (run.frame_idx < run.video.nh_from =>
                            \A t \in Tracks : no_helmets[t] = <<>>)
                    /\ run' = [run EXCEPT !.boxes = boxes,
                                          !.pc = IF boxes = <<>> THEN "write" ELSE "box"]
               /\ frame_marks' = (run.frame_idx :> {}) @@ frame_marks
               /\ current_task' = "video"
    /\ UNCHANGED <<violations, challans, tasks, calls, photo, stores>>

\* Lines 843-929 for the next tracked box: tracker update, speed, the no_helmet
\* rule with its check and mark, and the triple-riding block, whose loop over
\* the undefined name detected_objects raises NameError into `except: pass`.
\* The segment ends at `await db.user_settings.find_one` (line 931).
RunBox ==
    /\ RunHolds
    /\ run.pc = "box"
    /\ LET box == Head(run.boxes)
           t == box.track_id
           positions == AppendPosition(run.tracker_data[t].positions,
                                       <<box.center[1], box.center[2], run.frame_idx>>)
           recorded == run.tracker_data[t].violations
           found_no_helmet == /\ is_bike(box.class_name)
                              /\ NoHelmetUnrecorded(recorded)
                              /\ box.nh_match
           qualifies == is_bike(box.class_name) /\ box.nh_match
       IN  run' = [run EXCEPT
                     !.pc = "limit",
                     !.tracker_data[t].positions = positions,
                     !.tracker_data[t].class = box.class_name,
                     !.tracker_data[t].violations =
                         IF found_no_helmet THEN MarkRecorded(recorded, "no_helmet")
                         ELSE recorded,
                     !.speed = SpeedOf(positions, run.fps, run.pixels_per_meter),
                     !.violations_to_save =
                         IF found_no_helmet THEN <<"no_helmet">> ELSE <<>>,
                     !.matched_frames[t] = IF qualifies /\ @ < 2 THEN @ + 1 ELSE @,
                     !.first_match[t] = IF qualifies /\ @ = -1 THEN run.frame_idx ELSE @]
    /\ current_task' = "none"
    /\ UNCHANGED <<violations, challans, tasks, calls, frame_marks, photo, stores>>

\* Lines 931-948: the limit is resolved, then the overspeeding check and mark.
RunLimit ==
    /\ current_task = "none"
    /\ run.pc = "limit"
    /\ LET box == Head(run.boxes)
           t == box.track_id
           recorded == run.tracker_data[t].violations
           limit == EffectiveLimit(box.class_name, run.calibration, SettingsOf(RunUser))
           over == /\ Exceeds(run.speed, limit)
                   /\ OverspeedUnrecorded(recorded)
           to_save == IF over THEN Append(run.violations_to_save, "overspeeding")
                      ELSE run.violations_to_save
       IN  run' = [run EXCEPT
                     !.limit = limit,
                     !.tracker_data[t].violations =
                         IF over THEN MarkRecorded(recorded, "overspeeding") ELSE recorded,
                     !.violations_to_save = to_save,
                     !.pc = IF to_save = <<>> THEN "draw" ELSE "insert"]
    /\ current_task' = "video"
    /\ UNCHANGED <<violations, challans, tasks, calls, frame_marks, photo, stores>>

\* Lines 951-966: the Violation record of the next type to save is inserted.
RunInsert ==
    /\ RunHolds
    /\ run.pc = "insert"
    /\ violations' = Append(violations,
                            NewViolation(Head(run.violations_to_save), "video",
                                         Head(run.boxes).track_id, run.frame_idx))
    /\ run' = [run EXCEPT !.pc = "ocr", !.violation_id = Len(violations) + 1]
    /\ current_task' = "none"
    /\ UNCHANGED <<challans, tasks, calls, frame_marks, photo, stores>>

\* Lines 968-1015: OCR of the frame's plate boxes on the pool, the crop (a slice
\* of the frame), its photo record.  Every failure in here is caught.
RunOcr ==
    /\ current_task = "none"
    /\ run.pc = "ocr"
    /\ \E p \in PlateInputs :
         run' = [run EXCEPT !.pc = "dispatch", !.plate_text = p[1],
                            !.plate_detected = p[2]]
    /\ UNCHANGED <<violations, challans, tasks, calls, current_task, frame_marks, photo, stores>>

\* The crop of line 998: a view of the current frame over the box.
CropOf(frame_idx, track_id) == [kind |-> "view", buf |-> frame_idx, region |-> track_id]

\* Lines 1019-1035: the fallback OCR on the saved crop, then the citation task
\* is created for the violation just inserted; the loop goes to the next type.
RunDispatch ==
    /\ current_task = "none"
    /\ run.pc = "dispatch"
    /\ \E fallback \in PlateTexts :
         LET plate_text == IF run.plate_text = None /\ run.plate_detected
                           THEN fallback ELSE run.plate_text
             violation_type == Head(run.violations_to_save)
             rest == Tail(run.violations_to_save)
         IN  /\ tasks' = IF violation_type \in ChargeableTypes
                         THEN Append(tasks,
                                     NewTask(run.violation_id, violation_type, plate_text,
                                             run.plate_detected,
                                             CropOf(run.frame_idx, Head(run.boxes).track_id)))
                         ELSE tasks
             /\ run' = [run EXCEPT !.violations_to_save = rest,
                                   !.violations_count = @ + 1,
                                   !.plate_text = None, !.plate_detected = FALSE,
                                   !.pc = IF rest = <<>> THEN "draw" ELSE "insert"]
    /\ current_task' = "video"
    /\ UNCHANGED <<violations, challans, calls, frame_marks, photo, stores>>

\* Lines 1037-1050: cv2.rectangle and cv2.putText write into the frame.
RunDraw ==
    /\ RunHolds
    /\ run.pc = "draw"
    /\ frame_marks' = [frame_marks EXCEPT ![run.frame_idx] = @ \cup {Head(run.boxes).track_id}]
    /\ run' = [run EXCEPT !.boxes = Tail(@), !.speed = NoSpeed,
                          !.pc = IF Tail(run.boxes) = <<>> THEN "write" ELSE "box"]
    /\ current_task' = "video"
    /\ UNCHANGED <<violations, challans, tasks, calls, photo, stores>>

\* Lines 1052-1060: the processed frame is written, then the skipped frames
\* buffered before it.
RunWrite ==
    /\ RunHolds
    /\ run.pc = "write"
    /\ run' = [run EXCEPT !.out = Append(@, run.frame_idx) \o run.frames_to_write,
                          !.frames_to_write = <<>>,
                          !.frame_idx = @ + 1,
                          !.pc = "read"]
    /\ current_task' = "video"
    /\ UNCHANGED <<violations, challans, tasks, calls, frame_marks, photo, stores>>

\* Lines 1062-1078: the remaining skipped frames, then the job record is set to
\* completed.
RunFinish ==
    /\ RunHolds
    /\ run.pc = "finish"
    /\ run' = [run EXCEPT !.out = @ \o run.frames_to_write,
                          !.frames_to_write = <<>>,
                          !.status = "completed",
                          !.pc = "done"]
    /\ current_task' = "none"
    /\ UNCHANGED <<violations, challans, tasks, calls, frame_marks, photo, stores>>

RunStep ==
    \/ ProcessVideo
    \/ RunSetProcessing
    \/ RunOpen
    \/ RunRead
    \/ RunBox
    \/ RunLimit
    \/ RunInsert
    \/ RunOcr
    \/ RunDispatch
    \/ RunDraw
    \/ RunWrite
    \/ RunFinish

(***************************************************************************)
(* process_photo_background                                                *)
(***************************************************************************)
TRIPLE_DIST == 300          \* line 1836
PHONE_DIST == 150           \* line 1847
PHOTO_NH_DIST == 250        \* line 1826

\* The buffer cv2.imread returns for the photo (line 1595), among the frame
\* buffers of frame_marks.
PhotoBuffer == -1

\* A vehicle-like detection of the photo with what the per-vehicle loop measures
\* against it: the distance to the nearest 'triple' object and to the nearest
\* phone-like object, -1 when the photo holds no such object.
VehicleDetections == {[triple_dist |-> td, phone_dist |-> pd] :
                        td \in {-1, 299, 300}, pd \in {-1, 149}}

VehicleLists == UNION {[1..n -> VehicleDetections] : n \in 0..MaxVehicles}

\* Lines 1830-1838: a 'triple' object closer than 300 pixels to the vehicle.
triple_present(vehicle) == vehicle.triple_dist >= 0 /\ vehicle.triple_dist < TRIPLE_DIST

\* Lines 1843-1849: a phone-like object closer than 150 pixels to the vehicle.
phone_match(vehicle) == vehicle.phone_dist >= 0 /\ vehicle.phone_dist < PHONE_DIST

\* Lines 1684-1703: in the photo pipeline plate_detected is set only when the
\* OCR of the nearest plate returned a text.
PhotoPlateInputs == {<<None, FALSE>>, <<"PLATE", TRUE>>}

\* The center distance of the photo's no-helmet detections from its vehicles
\* (the boxes do not overlap: IoU 0), -1 when the photo lacks one of the two.
NoHelmetDistances == {-1, 249, 250}

\* Lines 1812-1827: the no-helmet detections left in no_helmets that match the
\* vehicle, IoU > 0.01 or center distance < 250.
nh_matches(nh_dist, no_helmets) ==
    IF nh_dist >= 0 /\ nh_dist < PHOTO_NH_DIST THEN no_helmets ELSE 0

\* A classes-only block that leaves the list as it found it.
KeptNoHelmets(no_helmets) == no_helmets

\* Lines 1716 and 1789: `no_helmets = []` at the end of a classes-only block.
ClearedNoHelmets(no_helmets) == 0

NewPhoto ==
    [pc |-> "idle", status |-> "uploaded", loaded |-> FALSE, vehicles |-> <<>>,
     no_helmets |-> 0, nh_total |-> 0, nh_dist |-> -1, nh_left |-> 0,
     pass |-> "first", plates |-> FALSE, violation_id |-> 0,
     violations_count |-> 0, response |-> {}]

PhotoHolds == current_task \in {"none", "photo"}

\* process_photo (lines 1559-1579): the request starts the pipeline, as a
\* background task or, with sync=true, awaited by the handler itself.
ProcessPhoto ==
    /\ current_task = "none"
    /\ photo.pc = "idle"
    /\ photo' = [photo EXCEPT !.pc = "start"]
    /\ UNCHANGED <<violations, challans, tasks, calls, current_task, frame_marks, run, stores>>

\* Lines 1585-1588: the job record moves to processing.
PhotoSetProcessing ==
    /\ current_task = "none"
    /\ photo.pc = "start"
    /\ photo' = [photo EXCEPT !.pc = "load", !.status = "processing"]
    /\ UNCHANGED <<violations, challans, tasks, calls, current_task, frame_marks, run, stores>>

\* Lines 1595-1597 and 1996-2000: cv2.imread returned None, ValueError is raised
\* and the handler sets the job record to failed.
AfterNotLoaded(ph) == [ph EXCEPT !.pc = "done", !.status = "failed"]

\* Lines 1590-1666: the image is read, the detector runs, its boxes are grouped
\* into vehicles, no_helmets, phones and plates; the first classes-only block is
\* entered when there are both vehicles and no-helmet detections (line 1651).
PhotoLoad ==
    /\ current_task = "none"
    /\ photo.pc = "load"
    /\ \E loaded \in BOOLEAN, vehicles \in VehicleLists,
          no_helmets \in 0..MaxNoHelmets, nh_dist \in NoHelmetDistances,
          plates \in BOOLEAN :
         IF ~loaded
         THEN /\ photo' = AfterNotLoaded(photo)
              /\ UNCHANGED <<current_task, frame_marks, stores>>
         ELSE /\ (nh_dist >= 0) <=> (vehicles # <<>> /\ no_helmets > 0)
              /\ photo' = [photo EXCEPT
                             !.loaded = TRUE, !.vehicles = vehicles,
                             !.no_helmets = no_helmets, !.nh_total = no_helmets,
                             !.nh_dist = nh_dist, !.nh_left = no_helmets,
                             !.plates = plates,
                             !.pc = IF vehicles # <<>> /\ no_helmets > 0 THEN "nh_insert"
                                    ELSE IF vehicles # <<>> THEN "vehicle"
                                    ELSE "finish"]
              /\ frame_marks' = (PhotoBuffer :> {}) @@ frame_marks
              /\ current_task' = "photo"
    /\ UNCHANGED <<violations, challans, tasks, calls, run, stores>>

\* Lines 1654-1667, 1727-1740 and 1865-1878: one no_helmet Violation is
\* inserted for the next no-helmet detection of the loop under way (a
\* classes-only block, or the matches of a vehicle).
PhotoNoHelmetInsert ==
    /\ PhotoHolds
    /\ photo.pc = "nh_insert"
    /\ violations' = Append(violations, NewViolation("no_helmet", "photo", 0, 0))
    /\ photo' = [photo EXCEPT !.pc = "nh_ocr", !.violation_id = Len(violations) + 1]
    /\ current_task' = "none"
    /\ UNCHANGED <<challans, tasks, calls, frame_marks, run, stores>>

\* The crop of line 1699: a view of the photo over the no-helmet box.
PhotoCropOf(nh) == [kind |-> "view", buf |-> PhotoBuffer, region |-> nh]

\* Lines 1669-1717, 1742-1790 and 1880-1911: OCR of the nearest plate, the crop
\* (of the no-helmet box in a classes-only block, of the vehicle in the
\* per-vehicle loop), the citation task.  At the end of a classes-only block
\* no_helmets is emptied; the second block (line 1724) and the per-vehicle
\* matching (line 1812) read what is left.
PhotoNoHelmetDispatch ==
    /\ current_task = "none"
    /\ photo.pc = "nh_ocr"
    /\ \E p \in PhotoPlateInputs :
         /\ (~photo.plates => p[1] = None)
         /\ tasks' = Append(tasks, NewTask(photo.violation_id, "no_helmet", p[1], p[2],
                                           IF photo.pass = "vehicle"
                                           THEN PhotoCropOf(-Len(photo.vehicles))
                                           ELSE PhotoCropOf(photo.nh_left)))
    /\ LET left == ClearedNoHelmets(photo.no_helmets) IN
       photo' =
         IF photo.nh_left > 1
         THEN [photo EXCEPT !.nh_left = @ - 1, !.violations_count = @ + 1,
                            !.pc = "nh_insert"]
         ELSE IF photo.pass = "first" /\ left > 0
         THEN [photo EXCEPT !.no_helmets = left, !.nh_left = left, !.pass = "second",
                            !.violations_count = @ + 1, !.pc = "nh_insert"]
         ELSE IF photo.pass \in {"first", "second"}
         THEN [photo EXCEPT !.no_helmets = left, !.nh_left = 0, !.pass = "second",
                            !.violations_count = @ + 1, !.pc = "vehicle"]
         ELSE [photo EXCEPT !.nh_left = 0, !.violations_count = @ + 1, !.pc = "rules"]
    /\ current_task' = "photo"
    /\ UNCHANGED <<violations, challans, calls, frame_marks, run, stores>>

\* Lines 1793-1930 for the next vehicle: the no-helmet detections left are
\* matched against it and each match gets its Violation; then a triple_riding
\* Violation is inserted when a 'triple' object is near, and the cell_phone one
\* when a phone is near.  Neither of the two is followed by a call of
\* create_challan_for_violation.
PhotoVehicle ==
    /\ PhotoHolds
    /\ photo.pc \in {"vehicle", "rules"}
    /\ LET vehicle == Head(photo.vehicles)
           matches == IF photo.pc = "vehicle"
                      THEN nh_matches(photo.nh_dist, photo.no_helmets) ELSE 0
       IN
       IF matches > 0
       THEN /\ photo' = [photo EXCEPT !.pc = "nh_insert", !.pass = "vehicle",
                                      !.nh_left = matches]
            /\ current_task' = "photo"
            /\ UNCHANGED violations
       ELSE IF triple_present(vehicle)
       THEN /\ violations' = Append(violations, NewViolation("triple_riding", "photo", 0, 0))
            /\ photo' = [photo EXCEPT !.pc = "phone", !.violations_count = @ + 1]
            /\ current_task' = "none"
       ELSE IF phone_match(vehicle)
       THEN /\ violations' = Append(violations, NewViolation("cell_phone", "photo", 0, 0))
            /\ photo' = [photo EXCEPT !.pc = "draw", !.violations_count = @ + 1]
            /\ current_task' = "none"
       ELSE /\ photo' = [photo EXCEPT !.pc = "draw"]
            /\ current_task' = "photo"
            /\ UNCHANGED violations
    /\ UNCHANGED <<challans, tasks, calls, frame_marks, run, stores>>

\* Lines 1932-1949: the cell_phone Violation of a vehicle that also had a
\* triple_riding one.
PhotoPhone ==
    /\ current_task = "none"
    /\ photo.pc = "phone"
    /\ IF phone_match(Head(photo.vehicles))
       THEN /\ violations' = Append(violations, NewViolation("cell_phone", "photo", 0, 0))
            /\ photo' = [photo EXCEPT !.pc = "draw", !.violations_count = @ + 1]
            /\ current_task' = "none"
       ELSE /\ photo' = [photo EXCEPT !.pc = "draw"]
            /\ current_task' = "photo"
            /\ UNCHANGED violations
    /\ UNCHANGED <<challans, tasks, calls, frame_marks, run, stores>>

\* Lines 1957-1967: the vehicle's rectangle and label are drawn on the photo.
PhotoDraw ==
    /\ PhotoHolds
    /\ photo.pc = "draw"
    /\ frame_marks' = [frame_marks EXCEPT ![PhotoBuffer] = @ \cup {-Len(photo.vehicles)}]
    /\ photo' = [photo EXCEPT !.vehicles = Tail(@),
                              !.pc = IF Tail(photo.vehicles) = <<>> THEN "finish"
                                     ELSE "vehicle"]
    /\ current_task' = "photo"
    /\ UNCHANGED <<violations, challans, tasks, calls, run, stores>>

\* Lines 1969-1993: the other objects (the no-helmet boxes among them) are drawn,
\* the photo is written, the job record is set to completed.
PhotoFinish ==
    /\ PhotoHolds
    /\ photo.pc = "finish"
    /\ frame_marks' = [frame_marks EXCEPT ![PhotoBuffer] = @ \cup (1..photo.nh_total)]
    /\ photo' = [photo EXCEPT !.status = "completed", !.pc = "done"]
    /\ current_task' = "none"
    /\ UNCHANGED <<violations, challans, tasks, calls, run, stores>>

\* Lines 1570-1575, sync=true: once the pipeline has returned, the handler reads
\* the photo's violations and then the challans whose violation_id is among
\* them; response holds the violation ids of the challans returned.
PhotoRespond ==
    /\ current_task = "none"
    /\ photo.pc = "done"
    /\ photo' = [photo EXCEPT
                   !.pc = "responded",
                   !.response = {c.violation_id : c \in
                                   {c \in challans :
                                      /\ c.violation_id \in DOMAIN violations
                                      /\ violations[c.violation_id].mode = "photo"}}]
    /\ UNCHANGED <<violations, challans, tasks, calls, current_task, frame_marks, run, stores>>

PhotoStep ==
    \/ ProcessPhoto
    \/ PhotoSetProcessing
    \/ PhotoLoad
    \/ PhotoNoHelmetInsert
    \/ PhotoNoHelmetDispatch
    \/ PhotoVehicle
    \/ PhotoPhone
    \/ PhotoDraw
    \/ PhotoFinish
    \/ PhotoRespond

(***************************************************************************)
(* process_frame_transient                                                 *)
(***************************************************************************)
TRANSIENT_NH_DIST == 150    \* line 1298

\* The buffer of the frame copy the handler is given (line 1210), among the
\* frame buffers of frame_marks.
TransientBuffer == -2

\* A vehicle-like detection of the frame with what the per-vehicle loop measures
\* against it: the center distance to each no-helmet detection of the frame, in
\* the detector's order (the boxes do not overlap: IoU 0), and the distance to
\* the nearest 'triple' object and to the nearest phone-like object, -1 when the
\* frame holds no such object.
TransientVehicles ==
    {[no_helmets |-> nh, triple_dist |-> td, phone_dist |-> pd] :
        nh \in {<<>>, <<149>>, <<150>>, <<150, 149>>}, td \in {-1, 299}, pd \in {-1, 149}}

TransientVehicleLists == UNION {[1..n -> TransientVehicles] : n \in 0..MaxVehicles}

\* Lines 1286-1309: the loop over the frame's no-helmet detections.  A match
\* sets the type to no_helmet and leaves the loop; after a detection that does
\* not match, the loop over detected_objects sets it to triple_riding when a
\* 'triple' object is closer than 300 pixels, and the outer loop goes on.
RECURSIVE NoHelmetLoop(_, _, _)
NoHelmetLoop(no_helmets, triple_dist, violation_type) ==
    IF no_helmets = <<>> THEN violation_type
    ELSE IF Head(no_helmets) < TRANSIENT_NH_DIST THEN "no_helmet"
    ELSE NoHelmetLoop(Tail(no_helmets), triple_dist,
                      IF triple_dist >= 0 /\ triple_dist < TRIPLE_DIST
                      THEN "triple_riding" ELSE violation_type)

\* Lines 1268-1316: the single violation_type of a vehicle.  A phone closer than
\* 150 pixels replaces None and no_helmet by cell_phone.
TransientViolationType(vehicle) ==
    LET violation_type == NoHelmetLoop(vehicle.no_helmets, vehicle.triple_dist, None)
    IN  IF violation_type \in {None, "no_helmet"} /\ phone_match(vehicle)
        THEN "cell_phone" ELSE violation_type

NewTransient ==
    [pc |-> "idle", vehicles |-> <<>>, plates |-> FALSE, violation_type |-> None,
     violation_id |-> 0, violations_count |-> 0]

\* Lines 1222-1266: the detector runs on the frame and its boxes are grouped.
TransientFrame ==
    /\ transient.pc = "idle"
    /\ \E vehicles \in TransientVehicleLists, plates \in BOOLEAN :
         transient' = [transient EXCEPT !.vehicles = vehicles, !.plates = plates,
                                        !.pc = IF vehicles = <<>> THEN "done"
                                               ELSE "vehicle"]
    /\ frame_marks' = (TransientBuffer :> {}) @@ frame_marks
    /\ UNCHANGED <<violations, challans, tasks, calls, current_task, run, photo,
                   calibration_zones, user_settings, user_sessions, clock, log, ocr, jobs>>

\* Lines 1268-1331 for the next vehicle: its violation_type is computed and,
\* when there is one, the Violation record is inserted.
TransientVehicle ==
    /\ transient.pc = "vehicle"
    /\ LET violation_type == TransientViolationType(Head(transient.vehicles)) IN
       IF violation_type # None
       THEN /\ violations' = Append(violations,
                                    NewViolation(violation_type, "transient", 0,
                                                 Len(transient.vehicles)))
            /\ transient' = [transient EXCEPT !.pc = "dispatch",
                                              !.violation_type = violation_type,
                                              !.violation_id = Len(violations) + 1,
                                              !.violations_count = @ + 1]
       ELSE /\ transient' = [transient EXCEPT
                               !.vehicles = Tail(@),
                               !.pc = IF Tail(transient.vehicles) = <<>> THEN "done"
                                      ELSE "vehicle"]
            /\ UNCHANGED violations
    /\ UNCHANGED <<challans, tasks, calls, current_task, frame_marks, run, photo,
                   calibration_zones, user_settings, user_sessions, clock, log, ocr, jobs>>

\* Lines 1334-1375: plate_detected is set as soon as the frame holds a plate,
\* the nearest one is read, the vehicle is cropped when a plate was detected,
\* and the citation task is created for the chargeable types.
TransientDispatch ==
    /\ transient.pc = "dispatch"
    /\ \E plate_text \in PlateTexts :
         LET plate_detected == transient.plates
             crop == IF plate_detected
                     THEN [kind |-> "view", buf |-> TransientBuffer,
                           region |-> Len(transient.vehicles)]
                     ELSE NoImage
         IN  /\ (~transient.plates => plate_text = None)
             /\ tasks' = IF transient.violation_type \in ChargeableTypes
                         THEN Append(tasks, NewTask(transient.violation_id,
                                                    transient.violation_type,
                                                    plate_text, plate_detected, crop))
                         ELSE tasks
    /\ transient' = [transient EXCEPT
                       !.vehicles = Tail(@), !.violation_type = None,
                       !.pc = IF Tail(transient.vehicles) = <<>> THEN "done"
                              ELSE "vehicle"]
    /\ UNCHANGED <<violations, challans, calls, current_task, frame_marks, run, photo,
                   calibration_zones, user_settings, user_sessions, clock, log, ocr, jobs>>

TransientStep == TransientFrame \/ TransientVehicle \/ TransientDispatch

(***************************************************************************)
(* The two ways a video run starts: POST /videos/{id}/process and the       *)
(* polling worker of process_video_worker.py.                              *)
(***************************************************************************)
\* The job record of one uploaded video and the runs started for it so far.
NewJobs == [status |-> "uploaded", runs |-> <<>>]

\* process_video (server.py lines 707-721): the video is looked up by id and
\* user, and the background task is created, whatever the status.
ProcessVideoRequest ==
    /\ Len(jobs.runs) < MaxRequests
    /\ jobs' = [jobs EXCEPT !.runs = Append(@, [by |-> "endpoint", pc |-> "start"])]
    /\ UNCHANGED <<violations, challans, tasks, calls, current_task, frame_marks, run, photo,
                   calibration_zones, user_settings, user_sessions, clock, log, ocr,
                   transient>>

\* process_video_background (lines 727-730): update_one sets the status to
\* processing; the frame loop follows.
BackgroundSetProcessing ==
    \E i \in DOMAIN jobs.runs :
        /\ jobs.runs[i].pc = "start"
        /\ jobs' = [jobs EXCEPT !.status = "processing", !.runs[i].pc = "running"]
        /\ UNCHANGED <<violations, challans, tasks, calls, current_task, frame_marks, run,
                       photo, calibration_zones, user_settings, user_sessions, clock, log,
                       ocr, transient>>

\* process_video_worker.py lines 159-170: find_one_and_update picks a video
\* whose status is uploaded and sets it to processing in one operation, then
\* process_job runs.
WorkerPoll ==
    /\ Len(jobs.runs) < MaxRequests
    /\ jobs.status = "uploaded"
    /\ jobs' = [jobs EXCEPT !.status = "processing",
                            !.runs = Append(@, [by |-> "worker", pc |-> "running"])]
    /\ UNCHANGED <<violations, challans, tasks, calls, current_task, frame_marks, run, photo,
                   calibration_zones, user_settings, user_sessions, clock, log, ocr,
                   transient>>

\* A run ends: the status is set to completed (server.py line 1074) or failed
\* (server.py line 1083, process_video_worker.py line 140).
JobEnds ==
    \E i \in DOMAIN jobs.runs, status \in {"completed", "failed"} :
        /\ jobs.runs[i].pc = "running"
        /\ jobs' = [jobs EXCEPT !.status = status, !.runs[i].pc = "done"]
        /\ UNCHANGED <<violations, challans, tasks, calls, current_task, frame_marks, run,
                       photo, calibration_zones, user_settings, user_sessions, clock, log,
                       ocr, transient>>

NextJobs == ProcessVideoRequest \/ BackgroundSetProcessing \/ WorkerPoll \/ JobEnds

(***************************************************************************)
(* Plate OCR: _clean_plate_text, _validate_indian_plate_format and         *)
(* extract_plate_text.  A text is a sequence of one-character strings; the *)
(* empty sequence stands for both "" and None, which the code tests alike  *)
(* (`if cleaned`, `if best_result`).                                       *)
(***************************************************************************)
WHITELIST_ATTEMPTS == 6         \* lines 154-155: 3 preprocessings x 2 PSM modes
FALLBACK_ATTEMPTS == 4          \* lines 198-199: the first 2 of each
CONFIDENCE_THRESHOLD == 70      \* line 152
FORMAT_BONUS == 20              \* line 178

\* The letters of the texts below, lower case and upper case, and the digits.
Letters == <<<<"d", "l", "a", "b">>, <<"D", "L", "A", "B">>>>
Digits == {"0", "1", "2", "3", "4"}

\* str.upper() on one character.
ToUpper(ch) ==
    IF \E k \in 1..4 : Letters[1][k] = ch
    THEN Letters[2][CHOOSE k \in 1..4 : Letters[1][k] = ch]
    ELSE ch

\* Lines 65-80.  Characters outside [A-Za-z0-9\- ] are removed, the text is
\* stripped, every run of whitespace becomes one space, the text is stripped
\* again; a text of at least 4 characters is returned upper-cased, else None.
clean_plate_text(text) ==
    LET Strip(t) ==
            LET dark == {i \in DOMAIN t : t[i] # " "}
            IN  IF dark = {} THEN <<>>
                ELSE SubSeq(t, CHOOSE i \in dark : \A j \in dark : i <= j,
                               CHOOSE i \in dark : \A j \in dark : j <= i)
        RECURSIVE Collapse(_)
        Collapse(t) ==
            IF Len(t) <= 1 THEN t
            ELSE IF t[1] = " " /\ t[2] = " " THEN Collapse(Tail(t))
            ELSE <<t[1]>> \o Collapse(Tail(t))
        kept == SelectSeq(text, LAMBDA ch : ch \in Range(Letters[1]) \cup Range(Letters[2])
                                                   \cup Digits \cup {"-", " "})
        cleaned == Strip(Collapse(Strip(kept)))
    IN  IF Len(cleaned) >= 4 THEN [k \in DOMAIN cleaned |-> ToUpper(cleaned[k])] ELSE <<>>

\* Lines 83-93.  Whitespace is removed, then the text must match
\* ^[A-Z]{2}\d{2}[A-Z]{1,2}\d{3,4}$.
validate_indian_plate_format(text) ==
    LET no_spaces == SelectSeq(text, LAMBDA ch : ch # " ")
        n == Len(no_spaces)
        upper(i) == no_spaces[i] \in Range(Letters[2])
        digit(i) == no_spaces[i] \in Digits
    IN  \E nl \in 1..2, nd \in 3..4 :
            /\ n = 4 + nl + nd
            /\ \A i \in 1..2 : upper(i)
            /\ \A i \in 3..4 : digit(i)
            /\ \A i \in 5..(4 + nl) : upper(i)
            /\ \A i \in (5 + nl)..n : digit(i)

\* What pytesseract.image_to_string may return for an attempt:
\* "", "dl 1 ab 1234", "dl 01 ab 1234", "DL-01-AB-1234", "#a b" and "ab   12".
RawTexts ==
    {<<>>,
     <<"d", "l", " ", "1", " ", "a", "b", " ", "1", "2", "3", "4">>,
     <<"d", "l", " ", "0", "1", " ", "a", "b", " ", "1", "2", "3", "4">>,
     <<"D", "L", "-", "0", "1", "-", "A", "B", "-", "1", "2", "3", "4">>,
     <<"#", "a", " ", "b">>,
     <<"a", "b", " ", " ", " ", "1", "2">>}

\* The mean of the positive word confidences of an attempt (lines 163-164).
Confidences == {0, 50, 69, 70, 90}

\* extract_plate_text not yet called.  attempts counts the combinations run;
\* raw, cleaned, valid and confidence are those of the last one that did not
\* raise; good_at and good_text are the number and the cleaned text of the
\* first combination that was grammar-valid with confidence at least 70;
\* top_score is the highest score (confidence, plus 20 when grammar-valid) of
\* the cleaned texts so far, -1 when no combination gave one.
NewOcr ==
    [pc |-> "idle", attempts |-> 0, raw |-> <<>>, cleaned |-> <<>>, valid |-> FALSE,
     confidence |-> 0, best_result |-> <<>>, best_confidence |-> 0, result |-> <<>>,
     good_at |-> 0, good_text |-> <<>>, top_score |-> -1]

\* Lines 98-152: without pytesseract, with an empty crop, or when the
\* preprocessing raises (line 233) the function returns None.
ExtractPlateText ==
    /\ ocr.pc = "idle"
    /\ \E usable \in BOOLEAN :
         ocr' = [ocr EXCEPT !.pc = IF usable THEN "whitelist" ELSE "returned"]
    /\ UNCHANGED <<violations, challans, tasks, calls, current_task, frame_marks, run, photo, transient,
                   calibration_zones, user_settings, user_sessions, clock, log, jobs>>

\* The bookkeeping both loops share: the record after one combination gave
\* (raw, confidence), before any return.
AfterAttempt(o, raw, confidence) ==
    LET cleaned == clean_plate_text(raw)
        valid == validate_indian_plate_format(cleaned)
        good == cleaned # <<>> /\ valid /\ confidence >= CONFIDENCE_THRESHOLD
    IN  [o EXCEPT !.attempts = @ + 1, !.raw = raw, !.cleaned = cleaned, !.valid = valid,
                  !.confidence = confidence,
                  !.good_at = IF good /\ @ = 0 THEN o.attempts + 1 ELSE @,
                  !.good_text = IF good /\ o.good_at = 0 THEN cleaned ELSE @,
                  !.top_score =
                      LET score == confidence + IF valid THEN FORMAT_BONUS ELSE 0
                      IN  IF cleaned # <<>> /\ score > @ THEN score ELSE @]

\* Lines 176-184 and 213-220: the best-scoring candidate so far is kept.
KeepBest(o) ==
    LET score == o.confidence + IF o.valid THEN FORMAT_BONUS ELSE 0
    IN  IF o.cleaned # <<>> /\ score > o.best_confidence
        THEN [o EXCEPT !.best_result = o.cleaned, !.best_confidence = score]
        ELSE o

\* Lines 154-194: one combination of the whitelist loop.  A combination that
\* raises is skipped (line 185).  A grammar-valid text with confidence at
\* least 70 is returned at once (line 171); after the last combination the
\* best candidate, if any, is returned (lines 190-194).
OcrWhitelistAttempt ==
    /\ ocr.pc = "whitelist"
    /\ \E raised \in BOOLEAN, raw \in RawTexts, confidence \in Confidences :
         /\ raised => (raw = <<>> /\ confidence = 0)
         /\ LET tried == AfterAttempt(ocr, raw, confidence)
                good == tried.cleaned # <<>> /\ tried.valid
                            /\ confidence >= CONFIDENCE_THRESHOLD
                o == IF raised THEN [ocr EXCEPT !.attempts = @ + 1]
                     ELSE IF good THEN [tried EXCEPT !.pc = "returned", !.result = tried.cleaned]
                     ELSE KeepBest(tried)
            IN  ocr' = IF o.pc = "returned" \/ o.attempts < WHITELIST_ATTEMPTS THEN o
                       ELSE IF o.best_result # <<>>
                            THEN [o EXCEPT !.pc = "returned", !.result = o.best_result]
                       ELSE [o EXCEPT !.pc = "fallback"]
    /\ UNCHANGED <<violations, challans, tasks, calls, current_task, frame_marks, run, photo, transient,
                   calibration_zones, user_settings, user_sessions, clock, log, jobs>>

\* Lines 198-232: one combination of the loop without whitelist, which has no
\* return inside; after the last one the best candidate or None is returned.
OcrFallbackAttempt ==
    /\ ocr.pc = "fallback"
    /\ \E raised \in BOOLEAN, raw \in RawTexts, confidence \in Confidences :
         /\ raised => (raw = <<>> /\ confidence = 0)
         /\ LET o == IF raised THEN [ocr EXCEPT !.attempts = @ + 1]
                     ELSE KeepBest(AfterAttempt(ocr, raw, confidence))
            IN  ocr' = IF o.attempts < WHITELIST_ATTEMPTS + FALLBACK_ATTEMPTS THEN o
                       ELSE [o EXCEPT !.pc = "returned", !.result = o.best_result]
    /\ UNCHANGED <<violations, challans, tasks, calls, current_task, frame_marks, run, photo, transient,
                   calibration_zones, user_settings, user_sessions, clock, log, jobs>>

\* No pipeline has started and the violation and challan collections are empty.
InitPipelines ==
    /\ violations = <<>>
    /\ challans = {}
    /\ tasks = <<>>
    /\ calls = <<>>
    /\ current_task = "none"
    /\ frame_marks = <<>>
    /\ run = NewRun
    /\ photo = NewPhoto

\* No session, no request answered, no OCR under way.
InitSessions ==
    /\ user_sessions = <<>>
    /\ clock = 0
    /\ log = <<>>
    /\ ocr = NewOcr
    /\ transient = NewTransient
    /\ jobs = NewJobs

\* The calibration a video run may find stored for its user: none, one whose
\* reference line is 500 pixels long, or one whose two points coincide
\* (create_calibration stores the request as it comes).
StoredCalibrations ==
    {<<>>} \cup {<<CalibrationDoc(RunUser, rd, <<<<0, 0>>, <<500, 0>>>>, sl, 0)>> :
                    rd \in {-5, 0, 5}, sl \in {0, 30, 60}}
           \cup {<<CalibrationDoc(RunUser, 5, <<<<0, 0>>, <<0, 0>>>>, 30, 0)>>}

\* The settings document a video run may find stored for its user.
StoredSettings ==
    {<<>>} \cup {<<SettingsDoc(RunUser, 40, Absent, Absent)>>,
                 <<SettingsDoc(RunUser, 40, 10, 50)>>,
                 <<SettingsDoc(RunUser, Absent, 0, Absent)>>}

Init ==
    /\ InitPipelines
    /\ InitSessions
    /\ calibration_zones = <<>>
    /\ user_settings = <<>>

\* The database as a video run may find it.
InitRun ==
    /\ InitPipelines
    /\ InitSessions
    /\ calibration_zones \in StoredCalibrations
    /\ user_settings \in StoredSettings

Next == RunStep \/ TaskStep

Spec == Init /\ [][Next]_vars

\* The single-photo pipeline with its citation tasks.
NextPhoto == PhotoStep \/ TaskStep

SpecPhoto == Init /\ [][NextPhoto]_vars

\* One uploaded video, the process endpoint and the polling worker.
SpecJobs == Init /\ [][NextJobs]_vars

\* One frame of the live extraction; the citation tasks it creates are left
\* pending.
SpecTransient == Init /\ [][TransientStep]_vars

\* The single-photo pipeline alone; the citation tasks it creates are left
\* pending.
SpecPhotoRun == Init /\ [][PhotoStep]_vars

\* The frame loop over the stored calibrations and settings; the citation
\* tasks it creates are left pending.
SpecRun == InitRun /\ [][RunStep]_vars

(***************************************************************************)
(* The calibration endpoints.  Each request is answered before the next    *)
(* one is made; log holds the requests answered so far.                    *)
(***************************************************************************)
\* The (reference_distance, pixel_points, speed_limit) bodies of the requests.
CalibrationRequests ==
    {<<5, <<<<0, 0>>, <<500, 0>>>>, 30>>,
     <<3, <<<<200, 120>>, <<520, 120>>>>, 50>>,
     <<5, <<<<200, 120>>, <<520, 120>>>>, 50>>}

\* An insert that leaves an existing document of the user as it is.
InsertIfAbsent(zones, doc) ==
    IF \E k \in DOMAIN zones : zones[k].user_id = doc.user_id
    THEN zones ELSE Append(zones, doc)

\* Line 1457: update_one({"user_id": ...}, {"$set": calib_dict}, upsert=True)
\* sets the fields of the first document of the user, or inserts one.
Upsert(zones, doc) ==
    IF \E k \in DOMAIN zones : zones[k].user_id = doc.user_id
    THEN [zones EXCEPT ![CHOOSE k \in DOMAIN zones :
                            /\ zones[k].user_id = doc.user_id
                            /\ \A j \in 1..(k - 1) : zones[j].user_id # doc.user_id] = doc]
    ELSE Append(zones, doc)

\* POST /calibration (lines 1437-1461) by an authenticated user; created_at is
\* the time of the request.
CreateCalibration ==
    \E user_id \in Users, body \in CalibrationRequests :
        LET doc == CalibrationDoc(user_id, body[1], body[2], body[3], clock) IN
        /\ Len(log) < MaxRequests
        /\ calibration_zones' = Upsert(calibration_zones, doc)
        /\ clock' = clock + 1
        /\ log' = Append(log, [endpoint |-> "create_calibration", user_id |-> user_id,
                               doc |-> doc])
        /\ UNCHANGED <<violations, challans, tasks, calls, current_task, frame_marks, run,
                       photo, transient, user_settings, user_sessions, ocr, jobs>>

\* GET /calibration (lines 1463-1473) by an authenticated user.
GetCalibration ==
    \E user_id \in Users :
        /\ Len(log) < MaxRequests
        /\ log' = Append(log, [endpoint |-> "get_calibration", user_id |-> user_id,
                               doc |-> LatestCalibration(user_id)])
        /\ UNCHANGED <<violations, challans, tasks, calls, current_task, frame_marks, run,
                       photo, transient, calibration_zones, user_settings, user_sessions, clock, ocr, jobs>>

\* The endpoints and the start of a video run, up to its read of the
\* calibration.
NextCalib ==
    \/ CreateCalibration
    \/ GetCalibration
    \/ ProcessVideo
    \/ RunSetProcessing
    \/ RunOpen

SpecCalib == Init /\ [][NextCalib]_vars

(***************************************************************************)
(* Sessions: create_session, get_me and logout.  The clock counts days.    *)
(***************************************************************************)
SESSION_DAYS == 7       \* line 630

\* The session tokens the auth provider hands out.
Tokens == {"t1", "t2"}

\* find_one({"session_token": ...}): the index of the first session record
\* with the token, 0 when there is none.
FindSession(token) ==
    LET mine == {k \in DOMAIN user_sessions : user_sessions[k].session_token = token}
    IN  IF mine = {} THEN 0 ELSE CHOOSE k \in mine : \A j \in mine : k <= j

\* delete_one({"session_token": ...}): the first session record with the token
\* is removed.
DeleteOne(token) ==
    LET k == FindSession(token)
    IN  IF k = 0 THEN user_sessions
        ELSE SubSeq(user_sessions, 1, k - 1) \o SubSeq(user_sessions, k + 1, Len(user_sessions))

\* POST /auth/session (lines 593-652).  The provider rejects the session id
\* (the HTTPException of line 606 is caught at line 651: status 500), or it
\* answers with the user and a session token, and a session record that
\* expires in 7 days is inserted.
CreateSession ==
    \E accepted \in BOOLEAN, user_id \in Users, token \in Tokens :
        /\ Len(log) < MaxRequests
        /\ ~accepted => (user_id = RunUser /\ token = "t1")
        /\ user_sessions' =
              IF accepted
              THEN Append(user_sessions, [user_id |-> user_id, session_token |-> token,
                                          expires_at |-> clock + SESSION_DAYS])
              ELSE user_sessions
        /\ log' = Append(log, [endpoint |-> "create_session",
                               token |-> IF accepted THEN token ELSE None,
                               status |-> IF accepted THEN 200 ELSE 500,
                               expired |-> FALSE])
        /\ UNCHANGED <<violations, challans, tasks, calls, current_task, frame_marks, run,
                       photo, transient, calibration_zones, user_settings, clock, ocr, jobs>>

\* GET /auth/me (lines 654-659) with get_current_user (lines 564-590): 401
\* without a token or without a session record of it; a record that has
\* expired is deleted and the answer is 401; else the user is returned.
GetMe ==
    \E token \in Tokens \cup {None} :
        LET k == FindSession(token)
            expired == k # 0 /\ user_sessions[k].expires_at < clock
        IN  /\ Len(log) < MaxRequests
            /\ user_sessions' = IF expired THEN DeleteOne(token) ELSE user_sessions
            /\ log' = Append(log, [endpoint |-> "me", token |-> token,
                                   status |-> IF k = 0 \/ expired THEN 401 ELSE 200,
                                   expired |-> expired])
            /\ UNCHANGED <<violations, challans, tasks, calls, current_task, frame_marks, run,
                           photo, transient, calibration_zones, user_settings, clock, ocr, jobs>>

\* POST /auth/logout (lines 661-666).
Logout ==
    \E token \in Tokens \cup {None} :
        /\ Len(log) < MaxRequests
        /\ user_sessions' = IF token # None THEN DeleteOne(token) ELSE user_sessions
        /\ log' = Append(log, [endpoint |-> "logout", token |-> token, status |-> 200,
                               expired |-> FALSE])
        /\ UNCHANGED <<violations, challans, tasks, calls, current_task, frame_marks, run,
                       photo, transient, calibration_zones, user_settings, clock, ocr, jobs>>

\* Time passes between requests.
PassTime ==
    /\ clock < MaxClock
    /\ clock' = clock + ClockStep
    /\ UNCHANGED <<violations, challans, tasks, calls, current_task, frame_marks, run,
                   photo, transient, calibration_zones, user_settings, user_sessions, log, ocr, jobs>>

NextAuth == CreateSession \/ GetMe \/ Logout \/ PassTime

SpecAuth == Init /\ [][NextAuth]_vars

\* One call of extract_plate_text.
NextOcr == ExtractPlateText \/ OcrWhitelistAttempt \/ OcrFallbackAttempt

SpecOcr == Init /\ [][NextOcr]_vars

(***************************************************************************)
(* The speed estimate of lines 855-868 on its own: a window of positions,  *)
(* a frame rate and a scale are given, and the estimate is computed.       *)
(***************************************************************************)
\* A window of n positions (cx, cy, frame_idx) whose first and last are
\* `displacement` pixels and `span` frames apart.
WindowOf(n, displacement, span) ==
    [k \in 1..n |-> IF k = n THEN <<displacement, 0, span>> ELSE <<0, 0, 0>>]

InitSpeed ==
    /\ violations = <<>>
    /\ challans = {}
    /\ tasks = <<>>
    /\ calls = <<>>
    /\ current_task = "video"
    /\ frame_marks = <<>>
    /\ photo = NewPhoto
    /\ InitSessions
    /\ calibration_zones = <<>>
    /\ user_settings = <<>>
    /\ \E n \in 1..MaxWindow, displacement \in {-500, 0, 100, 500}, span \in {0, 12, 20},
          fps \in {25, 30}, pixels_per_meter \in {<<50, 1>>, <<500, 5>>, <<240, 7>>} :
          run = [NewRun EXCEPT !.pc = "estimate", !.fps = fps,
                               !.pixels_per_meter = pixels_per_meter,
                               !.tracker_data[1].positions =
                                   WindowOf(n, displacement, span)]

\* Lines 855-868 applied to the window of track 1.
EstimateSpeed ==
    /\ run.pc = "estimate"
    /\ run' = [run EXCEPT !.pc = "estimated",
                          !.speed = SpeedOf(run.tracker_data[1].positions, run.fps,
                                            run.pixels_per_meter)]
    /\ UNCHANGED <<violations, challans, tasks, calls, current_task, frame_marks, photo, stores>>

SpecSpeed == InitSpeed /\ [][EstimateSpeed]_vars

(***************************************************************************)
(* The citation engine on its own: violations the pipeline has persisted,  *)
(* create_challan_for_violation invoked for them (by the pipeline's        *)
(* create_task, or awaited directly as scripts/test_auto_challan.py does), *)
(* and requests to the two on-demand endpoints.                            *)
(***************************************************************************)
CreateCallsOf(violation_id) == {i \in DOMAIN tasks : tasks[i].violation_id = violation_id}

InitCite ==
    /\ violations \in [1..NumViolations -> {NewViolation(ty, "video", 1, 0) : ty \in ChargeableTypes}]
    /\ challans = {}
    /\ tasks = <<>>
    /\ calls = <<>>
    /\ current_task = "none"
    /\ frame_marks = <<>>
    /\ run = NewRun
    /\ photo = NewPhoto
    /\ InitSessions
    /\ calibration_zones = <<>>
    /\ user_settings = <<>>

\* create_challan_for_violation is invoked for a persisted violation; a further
\* invocation for the same violation starts only after the earlier one returned.
CallCreateChallan ==
    \E v \in DOMAIN violations, p \in PlateInputs, img \in {NoImage, BytesImage} :
        /\ current_task = "none"
        /\ Cardinality(CreateCallsOf(v)) < MaxCreateCalls
        /\ \A i \in CreateCallsOf(v) : tasks[i].pc = "done"
        /\ tasks' = Append(tasks, NewTask(v, violations[v].violation_type, p[1], p[2], img))
        /\ UNCHANGED <<violations, challans, calls, current_task, frame_marks, run, photo, stores>>

CallEndpoint ==
    \E kind \in {"generate", "styled"}, v \in 1..(NumViolations + 1) :
        /\ current_task = "none"
        /\ Len(calls) < MaxCalls
        /\ calls' = Append(calls, NewCall(kind, v))
        /\ UNCHANGED <<violations, challans, tasks, current_task, frame_marks, run, photo, stores>>

\* What try_ocr_full_image_for_plate may read on the saved crop of a challan
\* when a read calls it: nothing, or a text (the crop is not the plate region
\* the pipeline read, so the text is its own).
ReadTexts == {None, "PLATE2"}

\* A test that looks at the image path only.
HasDetectedImage(doc) == doc.detected_image_path

\* Lines 2301 and 2333: `not doc.get('plate_number') and
\* doc.get('detected_image_path')`.
NeedsEnrichment(doc) == doc.plate_number = None /\ doc.detected_image_path

\* Lines 2302-2311 and 2334-2339: the $set of a read that recovered a plate.
Enriched(doc, plate) ==
    IF NeedsEnrichment(doc) /\ plate # None
    THEN [doc EXCEPT !.plate_number = plate, !.plate_readable = TRUE,
                     !.preset_challan = FALSE]
    ELSE doc

\* list_challans (lines 2298-2315) for one document of its page, or
\* get_challan (lines 2328-2341): the OCR of the saved crop is synchronous and
\* reads the file the citation task wrote (lines 244-248: None without one).
ReadChallan ==
    \E c \in challans, plate \in ReadTexts :
        /\ current_task = "none"
        /\ plate # None => (c.id[1] = "task" /\ tasks[c.id[2]].imwrite = "written")
        /\ challans' = (challans \ {c}) \cup {Enriched(c, plate)}
        /\ UNCHANGED <<violations, tasks, calls, current_task, frame_marks, run, photo, stores>>

NextCite == CallCreateChallan \/ CallEndpoint \/ TaskStep \/ EndpointStep


SpecCite == InitCite /\ [][NextCite]_vars

(***************************************************************************)
(* The three creators of challans over violations of one type, any type:   *)
(* create_challan_for_violation awaited with no plate and no image, as     *)
(* scripts/test_auto_challan.py calls it, and the two endpoints.           *)
(***************************************************************************)
InitFine ==
    /\ \E ty \in {"no_helmet", "overspeeding", "triple_riding", "cell_phone", "unknown"} :
          violations = [k \in 1..NumViolations |-> NewViolation(ty, "photo", 0, 0)]
    /\ challans = {}
    /\ tasks = <<>>
    /\ calls = <<>>
    /\ current_task = "none"
    /\ frame_marks = <<>>
    /\ run = NewRun
    /\ photo = NewPhoto
    /\ InitSessions
    /\ calibration_zones = <<>>
    /\ user_settings = <<>>

CallCreateDirect ==
    \E v \in DOMAIN violations :
        /\ current_task = "none"
        /\ Len(tasks) < MaxCreateCalls
        /\ \A i \in DOMAIN tasks : tasks[i].pc = "done"
        /\ tasks' = Append(tasks, NewTask(v, violations[v].violation_type,
                                          None, FALSE, NoImage))
        /\ UNCHANGED <<violations, challans, calls, current_task, frame_marks, run, photo, stores>>

NextFine == CallCreateDirect \/ CallEndpoint \/ TaskStep \/ EndpointStep

SpecFine == InitFine /\ [][NextFine]_vars

\* Nothing is under way: every citation task and every generate request has
\* ended.
Quiet ==
    /\ current_task = "none"
    /\ \A i \in DOMAIN tasks : tasks[i].pc = "done"
    /\ \A c \in DOMAIN calls : calls[c].pc \in {"done", "not_found"}

\* A pipeline calls create_challan_for_violation with the bytes of a crop, once
\* the operations before it have ended.
CallCreateWithImage ==
    \E v \in DOMAIN violations, p \in PlateInputs :
        /\ Quiet
        /\ Len(tasks) < MaxCalls
        /\ tasks' = Append(tasks, NewTask(v, violations[v].violation_type,
                                          p[1], p[2], BytesImage))
        /\ UNCHANGED <<violations, challans, calls, current_task, frame_marks, run, photo, stores>>

\* A request to generate_challan or generate_styled_challan for a stored
\* violation, once the operations before it have ended.
CallGenerate ==
    \E kind \in {"generate", "styled"}, v \in DOMAIN violations :
        /\ Quiet
        /\ Len(calls) < MaxCalls
        /\ calls' = Append(calls, NewCall(kind, v))
        /\ UNCHANGED <<violations, challans, tasks, current_task, frame_marks, run, photo, stores>>

\* The citation tasks and generate endpoints, one operation at a time, with the
\* challan reads at any moment.
NextRead == CallCreateWithImage \/ CallGenerate \/ TaskStep \/ EndpointStep \/ ReadChallan

\* The violations of a run: no_helmet records, none cited yet.
InitRead ==
    /\ violations = [k \in 1..NumViolations |-> NewViolation("no_helmet", "photo", 0, 0)]
    /\ challans = {}
    /\ tasks = <<>>
    /\ calls = <<>>
    /\ current_task = "none"
    /\ frame_marks = <<>>
    /\ run = NewRun
    /\ photo = NewPhoto
    /\ InitSessions
    /\ calibration_zones = <<>>
    /\ user_settings = <<>>

SpecRead == InitRead /\ [][NextRead]_vars

(***************************************************************************)
(* Properties                                                              *)
(***************************************************************************)
RecordsOf(track_id, violation_type) ==
    {k \in DOMAIN violations : /\ violations[k].mode = "video"
                               /\ violations[k].track_id = track_id
                               /\ violations[k].violation_type = violation_type}

AllTasksDone == \A i \in DOMAIN tasks : tasks[i].pc = "done"

\* C1: after two invocations of create_challan_for_violation, one after the
\* other, for the same violation id (and nothing else creating challans), the
\* challans collection holds exactly one record with that violation_id.
C1_SecondCallAddsNoChallan ==
    \A v \in DOMAIN violations :
        (/\ calls = <<>>
         /\ Cardinality(CreateCallsOf(v)) = 2
         /\ \A i \in CreateCallsOf(v) : tasks[i].pc = "done")
        => Cardinality(ChallansOf(v)) = 1

\* C2: in every reachable state, with one background citation task for a
\* violation interleaved with requests to generate_challan and
\* generate_styled_challan, the challans collection holds at most one record
\* per violation id.
C2_AtMostOneChallanPerViolation ==
    \A v \in DOMAIN violations :
        Cardinality(CreateCallsOf(v)) <= 1 => Cardinality(ChallansOf(v)) <= 1

\* A no_helmet record of the current box is marked but not yet inserted.
NoHelmetPending(t) ==
    /\ run.pc \in {"limit", "insert"}
    /\ Head(run.boxes).track_id = t
    /\ "no_helmet" \in Range(run.violations_to_save)

C4_MarkedBeforePersisted ==
    /\ run.violations_to_save # <<>> =>
          Range(run.violations_to_save)
              \subseteq run.tracker_data[Head(run.boxes).track_id].violations
    /\ \A k \in DOMAIN violations :
          violations[k].violation_type
              \in run.tracker_data[violations[k].track_id].violations
    /\ \A t \in Tracks, ty \in ChargeableTypes : Cardinality(RecordsOf(t, ty)) <= 1

\* The long video ran to its end with the object speeding from frame 12 on and
\* matched by no-helmet detections: one record of each type for the track.
C4_Witness ==
    /\ run.pc = "done"
    /\ run.frame_idx = LongFrames
    /\ \E t \in Tracks : /\ Cardinality(RecordsOf(t, "overspeeding")) = 1
                         /\ Cardinality(RecordsOf(t, "no_helmet")) = 1
                         /\ run.matched_frames[t] = 2

\* C5: once the pipelines have ended and every dispatched citation task has
\* run to completion, every persisted Violation of a chargeable type has a
\* challan record carrying its violation id.
C5_EveryChargeableViolationCited ==
    (/\ run.pc \in {"idle", "done"}
     /\ photo.pc \in {"idle", "done"}
     /\ AllTasksDone)
    => \A k \in DOMAIN violations :
          violations[k].violation_type \in ChargeableTypes => ChallansOf(k) # {}

\* C6: the Violation record of a citation task is persisted when the task is
\* dispatched; the task's challan record is in the collection when document
\* generation starts and from then on; every challan's violation id is that of
\* a Violation record the pipeline persisted.
C6_PersistThenCiteThenDocument ==
    /\ \A i \in DOMAIN tasks :
          /\ tasks[i].violation_id \in DOMAIN violations
          /\ violations[tasks[i].violation_id].violation_type = tasks[i].violation_type
          /\ (tasks[i].pc \in {"pdf", "pdf_update", "update_violation", "done"}
                \/ tasks[i].pdf # "pending")
                => \E c \in challans : /\ c.id = tasks[i].challan_dict.id
                                       /\ c.violation_id = tasks[i].violation_id
    /\ \A c \in challans : c.violation_id \in DOMAIN violations

\* A citation task of the video run returned after its document was written.
C6_Witness ==
    \E i \in DOMAIN tasks : /\ tasks[i].pc = "done"
                            /\ tasks[i].pdf = "ok"
                            /\ ChallansOf(tasks[i].violation_id) # {}

\* C7: when the build or the write of the citation document fails, the challan
\* record inserted before stays in the collection as inserted, the invocation
\* goes on to update the violation and returns, and the violation then carries
\* the challan number.
C7_DocumentFailureKeepsChallan ==
    \A i \in DOMAIN tasks :
        tasks[i].pdf \in {"build_raised", "write_raised"} =>
            /\ tasks[i].challan_dict \in challans
            /\ tasks[i].pc \in {"update_violation", "done"}
            /\ tasks[i].pc = "done" =>
                  violations[tasks[i].violation_id].challan_number
                      = tasks[i].challan_dict.challan_number

\* An invocation returned after the document write had failed.
C7_Witness ==
    \E i \in DOMAIN tasks : /\ tasks[i].pdf = "write_raised"
                            /\ tasks[i].pc = "done"
                            /\ tasks[i].challan_dict \in challans

\* C8: a video run in which one frame failed to decode or made the tracker
\* raise ends with status completed, and all its frames but the failed one are
\* in the output.
C8_FrameFailureSkipped ==
    (run.pc = "done" /\ (run.track_raised \/ run.decode_failed))
    => /\ run.status = "completed"
       /\ Len(run.out) >= run.video.nframes - 1

\* C9: a video run whose source could not be opened ends with status failed.
C9_UnopenedSourceFails ==
    (run.pc = "done" /\ ~run.opened) => run.status = "failed"

\* C10: the pixels a citation task saves are the pixels of the crop at the time
\* the task was dispatched.
C10_CropIsSnapshot ==
    \A i \in DOMAIN tasks :
        tasks[i].imwrite = "written" => tasks[i].saved_pixels = tasks[i].dispatched_pixels

RECURSIVE Gcd(_, _)
Gcd(a, b) == IF b = 0 THEN a ELSE Gcd(b, a % b)

\* A fraction in lowest terms.
Reduced(speed) ==
    LET g == Gcd(speed.num, speed.den)
    IN  IF g = 0 THEN speed ELSE [num |-> speed.num \div g, den |-> speed.den \div g]

\* C11: for a window of at least 5 positions with elapsed frames, the speed is
\* (pixel distance between first and last position / pixels_per_meter) /
\* (frame difference / fps) * 3.6; a window of 5 positions spanning 20 frames
\* at fps 25 and scale 50 px/m with 500 px between first and last gives
\* exactly 45 km/h.
C11_SpeedFormula ==
    run.pc = "estimated" =>
        LET positions == run.tracker_data[1].positions
            n == Len(positions)
            dx == positions[n][1] - positions[1][1]
            distance == IF dx >= 0 THEN dx ELSE -dx
            frames == positions[n][3] - positions[1][3]
            ppm == run.pixels_per_meter
            speed == Reduced(run.speed)
        IN  /\ (n >= 5 /\ frames > 0) =>
                  /\ speed.den > 0
                  /\ speed.num * (ppm[1] * frames * 10)
                        = speed.den * (distance * ppm[2] * run.fps * 36)
            /\ (n = 5 /\ frames = 20 /\ run.fps = 25 /\ ppm = <<50, 1>> /\ distance = 500)
                  => run.speed.num = 45 * run.speed.den

\* The estimate of the example window: 45 km/h.
C11_Witness ==
    /\ run.pc = "estimated"
    /\ Len(run.tracker_data[1].positions) = 5
    /\ run.tracker_data[1].positions[5] = <<500, 0, 20>>
    /\ run.fps = 25
    /\ run.pixels_per_meter = <<50, 1>>
    /\ run.speed.den > 0
    /\ run.speed.num = 45 * run.speed.den

\* C12: while the window of a track holds fewer than 5 positions its speed is
\* unknown and no overspeeding violation is queued or persisted for it,
\* whatever the limit in force (0 included).
C12_NoOverspeedOnShortWindow ==
    /\ run.pc \in {"limit", "insert", "ocr", "dispatch", "draw"} =>
          (Len(run.tracker_data[Head(run.boxes).track_id].positions) < 5 =>
              /\ run.speed = NoSpeed
              /\ "overspeeding" \notin Range(run.violations_to_save))
    /\ \A t \in Tracks :
          RecordsOf(t, "overspeeding") # {} => Len(run.tracker_data[t].positions) >= 5

\* A moving object with 4 positions passed the overspeeding rule under the
\* limit 0 and nothing was recorded.
C12_Witness ==
    /\ run.pc = "draw"
    /\ run.video.motion > 0
    /\ Len(run.tracker_data[Head(run.boxes).track_id].positions) = 4
    /\ run.limit = 0
    /\ \A t \in Tracks : RecordsOf(t, "overspeeding") = {}

C15_ChallanCarriesTableFine ==
    \A c \in challans :
        LET ty == violations[c.violation_id].violation_type IN
        /\ ty = "no_helmet" => c.fine_amount = 500
        /\ ty = "overspeeding" => c.fine_amount = 1500
        /\ ty \notin {"no_helmet", "cell_phone", "phone", "mobile", "overspeeding",
                      "wrong_way"} => c.fine_amount = 500
        /\ ty = "cell_phone" => c.fine_amount = 1000

\* An overspeeding violation with a challan of create_challan_for_violation
\* and a challan of an endpoint, both of 1500.
C15_Witness ==
    \E c, d \in challans :
        /\ violations[c.violation_id].violation_type = "overspeeding"
        /\ c.violation_id = d.violation_id
        /\ c.id[1] = "task"
        /\ d.id[1] \in {"generate", "styled"}
        /\ c.fine_amount = 1500
        /\ d.fine_amount = 1500

\* C16: an attempt whose raw text is "dl 1 ab 1234" has the cleaned text
\* "DL1AB1234", and that text validates against the plate grammar; a text
\* with hyphens between the groups validates as well, the hyphens being
\* stripped before matching.
C16_CleanedPlateValidates ==
    /\ ocr.raw = <<"d", "l", " ", "1", " ", "a", "b", " ", "1", "2", "3", "4">>
          => /\ ocr.cleaned = <<"D", "L", "1", "A", "B", "1", "2", "3", "4">>
             /\ ocr.valid
    /\ ocr.raw = <<"D", "L", "-", "0", "1", "-", "A", "B", "-", "1", "2", "3", "4">>
          => ocr.valid

\* C17: once a combination gave a grammar-valid text with confidence at least
\* 70, the function has returned that text, no further combination was run,
\* and fewer than the 10 possible combinations were made.
C17_FirstGoodCandidateReturned ==
    ocr.good_at # 0 =>
        /\ ocr.pc = "returned"
        /\ ocr.result = ocr.good_text
        /\ ocr.attempts = ocr.good_at
        /\ ocr.attempts < 10

\* C18: in single-photo processing, the challan of a citation task for a
\* violation in whose photo a plate region was detected carries, when no plate
\* text could be read, the preset flag, plate_readable false and the
\* explanatory note.
C18_UnreadablePlateIsPreset ==
    \A i \in DOMAIN tasks :
        (/\ violations[tasks[i].violation_id].mode = "photo"
         /\ photo.plates
         /\ tasks[i].pc \in {"pdf", "pdf_update", "update_violation", "done"})
        => \E c \in challans :
             /\ c.id = <<"task", i>>
             /\ c.plate_number = None =>
                   (c.preset_challan /\ ~c.plate_readable /\ c.notes = "unreadable")

\* The values of the last calibration the user created according to the
\* first n entries of the log (those of NoCalibration when there is none).
LastCreated(user_id, n) ==
    LET mine == {i \in 1..n : /\ log[i].endpoint = "create_calibration"
                              /\ log[i].user_id = user_id}
        doc == IF mine = {} THEN NoCalibration
               ELSE log[CHOOSE i \in mine : \A j \in mine : j <= i].doc
    IN  <<doc.reference_distance, doc.pixel_points, doc.speed_limit>>

C20_LoggedOutTokenRejected ==
    /\ [](\A i, j \in DOMAIN log :
            (/\ i < j
             /\ log[i].endpoint = "logout"
             /\ log[i].token # None
             /\ log[j].endpoint = "me"
             /\ log[j].token = log[i].token
             /\ \A k \in (i + 1)..(j - 1) :
                   ~(log[k].endpoint = "create_session" /\ log[k].token = log[i].token))
            => log[j].status = 401)
    /\ [][(/\ Len(log') = Len(log) + 1
           /\ log'[Len(log')].endpoint = "me"
           /\ log'[Len(log')].expired)
          => /\ log'[Len(log')].status = 401
             /\ user_sessions' = DeleteOne(log'[Len(log')].token)]_vars

\* C28: the output of a run that read its whole input and whose tracker never
\* raised holds every input frame exactly once, in input order.
C28_OutputInInputOrder ==
    (run.pc = "done" /\ run.opened /\ ~run.track_raised /\ ~run.decode_failed)
    => run.out = [k \in 1..run.video.nframes |-> k - 1]

\* C25: when extract_plate_text has returned without the early exit, its
\* result is a candidate of the highest score among the combinations that
\* gave a cleaned text, and it is None only when no combination gave one; the
\* combinations without whitelist start only with no candidate retained.
C25_BestCandidateReturned ==
    /\ (ocr.pc = "returned" /\ ocr.attempts >= WHITELIST_ATTEMPTS
            /\ ocr.good_at \notin 1..WHITELIST_ATTEMPTS)
          => /\ ocr.top_score >= 0 => (ocr.result # <<>> /\ ocr.best_confidence = ocr.top_score)
             /\ ocr.top_score < 0 => ocr.result = <<>>
    /\ (ocr.pc = "fallback" /\ ocr.attempts = WHITELIST_ATTEMPTS) => ocr.best_result = <<>>

\* C29: in every video run the pixels_per_meter the speed estimator uses is
\* strictly positive, every speed it produces has a nonzero divisor, and no
\* overspeeding violation is queued on a speed without one.
C29_PositiveScaleAndTime ==
    run.pc \notin {"idle", "start", "open"} =>
        /\ run.pixels_per_meter[1] > 0
        /\ run.pixels_per_meter[2] > 0
        /\ run.speed # NoSpeed => run.speed.den > 0
        /\ "overspeeding" \in Range(run.violations_to_save) => run.speed.den > 0

\* C22: in video mode a bike-class track that has not yet recorded
\* triple_riding records it on a frame where a triple-class detection lies
\* within 300 pixels of its center, and never records it without one.
C22_TripleRidingRecorded ==
    run.pc = "limit" =>
        LET box == Head(run.boxes)
            near == is_bike(box.class_name) /\ box.triple_dist < TRIPLE_DIST
        IN  near <=> "triple_riding" \in run.tracker_data[box.track_id].violations

\* C21: the violation types persisted for a vehicle of a transient frame are
\* exactly the rules whose condition holds for it: no_helmet when a no-helmet
\* detection matches, triple_riding when a 'triple' object is within 300
\* pixels, cell_phone when a phone is within 150 pixels.
C21_EveryRuleThatHoldsPersisted ==
    transient.pc = "dispatch" =>
        LET vehicle == Head(transient.vehicles)
            holds(rule) ==
                CASE rule = "no_helmet" ->
                        \E k \in DOMAIN vehicle.no_helmets :
                            vehicle.no_helmets[k] < TRANSIENT_NH_DIST
                  [] rule = "triple_riding" -> triple_present(vehicle)
                  [] rule = "cell_phone" -> phone_match(vehicle)
            persisted == {violations[v].violation_type : v \in
                            {v \in DOMAIN violations :
                                /\ violations[v].mode = "transient"
                                /\ violations[v].frame_idx = Len(transient.vehicles)}}
        IN  persisted = {rule \in {"no_helmet", "triple_riding", "cell_phone"} : holds(rule)}

\* C23: a no_helmet violation of a photo is created only if some vehicle of
\* the photo matches the no-helmet detection (IoU > 0.01, or center distance
\* below the photo threshold of 250 pixels); an unmatched detection produces
\* no violation.
C23_NoHelmetNeedsMatchingVehicle ==
    \A v \in DOMAIN violations :
        (violations[v].mode = "photo" /\ violations[v].violation_type = "no_helmet")
            => (photo.nh_dist >= 0 /\ photo.nh_dist < PHOTO_NH_DIST)

\* C24: in one processing of a photo the no-helmet detections get at most one
\* no_helmet Violation and at most one citation task each: neither the second
\* classes-only block nor the per-vehicle loop adds to what the first block
\* created, and no two tasks share a Violation or a crop.
C24_OneNoHelmetViolationPerInstance ==
    LET nh_violations == {v \in DOMAIN violations :
                            /\ violations[v].mode = "photo"
                            /\ violations[v].violation_type = "no_helmet"}
        nh_tasks == {i \in DOMAIN tasks : tasks[i].violation_type = "no_helmet"}
    IN  /\ Cardinality(nh_violations) <= photo.nh_total
        /\ Cardinality(nh_tasks) <= photo.nh_total
        /\ \A i, j \in nh_tasks :
              i # j => /\ tasks[i].violation_id # tasks[j].violation_id
                       /\ tasks[i].detected_image # tasks[j].detected_image

\* A photo with two no-helmet detections 249 pixels from its vehicles has been
\* processed: two Violations, two tasks.
C24_Witness ==
    /\ photo.pc = "done"
    /\ photo.status = "completed"
    /\ photo.nh_total = 2
    /\ photo.nh_dist = 249
    /\ Len(tasks) = 2
    /\ Len(violations) >= 2

\* C27: the response of a photo processed with sync=true holds a challan for
\* every chargeable violation of the photo.
C27_SyncResponseHoldsEveryChallan ==
    photo.pc = "responded" =>
        \A v \in DOMAIN violations :
            (violations[v].mode = "photo"
                /\ violations[v].violation_type \in ChargeableTypes)
            => v \in photo.response

\* C26 as stated: once inserted, a challan stays in the collection with its
\* id, violation_id, challan_number, fine_amount and violation_type, and the
\* only change any later step makes to it is the attachment of a recovered
\* plate number (readable, not preset) to a challan that has none.
C26_OnlyPlateAttached ==
    [][\A c \in challans : \E d \in challans' :
          /\ d.id = c.id
          /\ d = [c EXCEPT !.plate_number = d.plate_number,
                           !.plate_readable = d.plate_readable,
                           !.preset_challan = d.preset_challan]
          /\ d # c => /\ c.plate_number = None
                      /\ d.plate_number # None
                      /\ d.plate_readable
                      /\ ~d.preset_challan]_vars

\* C26, amended: once inserted, a challan stays in the collection with its id,
\* violation_id, challan_number, fine_amount and violation_type; a later step
\* changes it only by recording the pdf_path of its document, or by attaching
\* a recovered plate number (readable, not preset) to a challan that has none;
\* the plate fields of a challan that has a plate number never change.
C26_PlateAttachedOrPdfRecorded ==
    [][\A c \in challans : \E d \in challans' :
          /\ d.id = c.id
          /\ d = [c EXCEPT !.plate_number = d.plate_number,
                           !.plate_readable = d.plate_readable,
                           !.preset_challan = d.preset_challan,
                           !.pdf_path = d.pdf_path]
          /\ d.pdf_path # c.pdf_path => (d.pdf_path /\ d = [c EXCEPT !.pdf_path = TRUE])
          /\ d.plate_number # c.plate_number
                => /\ c.plate_number = None
                   /\ d.plate_readable
                   /\ ~d.preset_challan
          /\ d.plate_number = c.plate_number
                => /\ d.plate_readable = c.plate_readable
                   /\ d.preset_challan = c.preset_challan]_vars

\* A challan inserted without a plate number has had its document recorded
\* and a plate recovered from its saved crop by a read.
C26_Witness ==
    \E c \in challans :
        /\ c.id[1] = "task"
        /\ tasks[c.id[2]].plate_text = None
        /\ c.plate_number = "PLATE2"
        /\ c.pdf_path

\* C30: no video is processed by two runs at once: a run starts only for a
\* video whose status is uploaded, which the start moves to processing.
C30_OneRunPerVideo ==
    /\ [](Cardinality({i \in DOMAIN jobs.runs : jobs.runs[i].pc = "running"}) <= 1)
    /\ [][\A i \in DOMAIN jobs.runs' :
            (jobs.runs'[i].pc = "running"
                /\ (i \notin DOMAIN jobs.runs \/ jobs.runs[i].pc # "running"))
            => (jobs.status = "uploaded" /\ jobs.status' = "processing")]_vars

====